---- MODULE Spec2Model ----
(***************************************************************************)
(* A model of the persistence engine of linkedin_ai/core/sqldantic.py:     *)
(* the type classifier, the schema descriptor, the query factories, the    *)
(* recursive write and read walkers of BaseDB and the error policy of      *)
(* catch_sqlite_errors, over a small relational store that behaves like    *)
(* the sqlite3 connection the engine owns.                                 *)
(*                                                                         *)
(* Python values are tagged pairs <<tag, payload>>: None, a str (a tuple   *)
(* of characters), a list, a dict (a tuple of <<key, value>> pairs in      *)
(* insertion order) and a pydantic model instance.  A str is a tuple of    *)
(* characters so that join and split act on the delimiter as Python's do.  *)
(***************************************************************************)
EXTENDS Integers, Sequences, FiniteSets, TLC

VARIABLES
    models,   \* the BaseModel classes of the application using the store
    policy,   \* BaseDB.ignore_sqlite_errors
    db,       \* the sqlite database behind BaseDB.conn: table name -> table
    last      \* the last call made on the BaseDB and what it did

vars == <<models, policy, db, last>>

----------------------------------------------------------------------------
(* Bounds of the model *)

\* longest list held by a sequence field and longest key list of a get call
MaxSeq == 2
\* most rows a table may hold before the model stops inserting into it
MaxRows == 2

----------------------------------------------------------------------------
(* Python values *)

None == <<"None", <<>>>>
Str(s) == <<"str", s>>
List(l) == <<"list", l>>
Dict(d) == <<"dict", d>>
Obj(T, f) == <<"obj", <<T, f>>>>

IsNone(v) == v[1] = "None"
IsObj(v) == v[1] = "obj"
TypeOf(e) == e[2][1]
FieldsOf(e) == e[2][2]

\* all tuples over S of length at most n
RECURSIVE SeqsUpTo(_, _)
SeqsUpTo(S, n) ==
    IF n = 0 THEN {<<>>}
    ELSE LET shorter == SeqsUpTo(S, n - 1)
         IN  shorter \cup {Append(s, x) : s \in {t \in shorter : Len(t) = n - 1}, x \in S}

IsPrefix(p, s) == Len(p) <= Len(s) /\ SubSeq(s, 1, Len(p)) = p

----------------------------------------------------------------------------
(* str.join and str.split on the sequence separator *)

SEQUENCE_SEPARATOR == ","

\* sep.join(items) for a tuple of strs (tuples of characters)
RECURSIVE Join(_)
Join(items) ==
    IF Len(items) = 0 THEN <<>>
    ELSE IF Len(items) = 1 THEN items[1]
    ELSE items[1] \o <<SEQUENCE_SEPARATOR>> \o Join(Tail(items))

\* text.split(sep): always at least one piece, "" splits into [""]
RECURSIVE Split(_)
Split(text) ==
    LET hits == {i \in 1..Len(text) : text[i] = SEQUENCE_SEPARATOR}
    IN  IF hits = {} THEN <<text>>
        ELSE LET i == CHOOSE j \in hits : \A k \in hits : j <= k
             IN  <<SubSeq(text, 1, i - 1)>> \o Split(SubSeq(text, i + 1, Len(text)))

----------------------------------------------------------------------------
(* Declared types (annotations) and the model classes of the application *)

\* an annotation is <<kind, args>>
AStr == <<"str", <<>>>>
ANoneType == <<"NoneType", <<>>>>
AModel(T) == <<"model", <<T>>>>
AUnion(args) == <<"Union", args>>
AOptional(a) == AUnion(<<a, ANoneType>>)
AList(a) == <<"List", <<a>>>>
ADict(k, v) == <<"Dict", <<k, v>>>>

ModelTypes ==
    {"Customer", "Order", "LineItem", "Cart", "Member", "Book", "Shelf", "Post", "Resume",
     "Ticket", "Profile", "Invoice", "Entry", "Pair", "Node", "Employee", "Team",
     "Tag", "TAG", "Boss", "Bosse", "Review"}

\* model.__name__, a str
ClassName(T) ==
    CASE T = "Customer" -> <<"C", "u", "s", "t", "o", "m", "e", "r">>
      [] T = "Order"    -> <<"O", "r", "d", "e", "r">>
      [] T = "LineItem" -> <<"L", "i", "n", "e", "I", "t", "e", "m">>
      [] T = "Cart"     -> <<"C", "a", "r", "t">>
      [] T = "Member"   -> <<"M", "e", "m", "b", "e", "r">>
      [] T = "Post"     -> <<"P", "o", "s", "t">>
      [] T = "Book"     -> <<"B", "o", "o", "k">>
      [] T = "Shelf"    -> <<"S", "h", "e", "l", "f">>
      [] T = "Ticket"   -> <<"T", "i", "c", "k", "e", "t">>
      [] T = "Resume"   -> <<"R", "e", "s", "u", "m", "e">>
      [] T = "Profile"  -> <<"P", "r", "o", "f", "i", "l", "e">>
      [] T = "Invoice"  -> <<"I", "n", "v", "o", "i", "c", "e">>
      [] T = "Entry"    -> <<"E", "n", "t", "r", "y">>
      [] T = "Pair"     -> <<"P", "a", "i", "r">>
      [] T = "Node"     -> <<"N", "o", "d", "e">>
      [] T = "Employee" -> <<"E", "m", "p", "l", "o", "y", "e", "e">>
      [] T = "Team"     -> <<"T", "e", "a", "m">>
      [] T = "Review"   -> <<"R", "e", "v", "i", "e", "w">>
      [] T = "Tag"      -> <<"T", "a", "g">>
      [] T = "TAG"      -> <<"T", "A", "G">>
      [] T = "Boss"     -> <<"B", "o", "s", "s">>
      [] T = "Bosse"    -> <<"B", "o", "s", "s", "e">>

Field(n, a) == [name |-> n, annotation |-> a]

\* model.model_fields, in declaration order
model_fields(T) ==
    CASE T = "Customer" -> <<Field("id", AStr), Field("name", AOptional(AStr))>>
      [] T = "Order"    -> <<Field("id", AStr), Field("customer", AOptional(AModel("Customer")))>>
      [] T = "LineItem" -> <<Field("id", AStr), Field("name", AOptional(AStr))>>
      [] T = "Cart"     -> <<Field("id", AStr), Field("items", AList(AModel("LineItem")))>>
      [] T = "Member"   -> <<Field("id", AStr)>>
      [] T = "Post"     -> <<Field("id", AStr), Field("tags", AOptional(AList(AStr)))>>
      [] T = "Book"     -> <<Field("id", AStr), Field("owners", ADict(AStr, AModel("Member")))>>
      [] T = "Shelf"    -> <<Field("id", AStr), Field("book", AOptional(AModel("Book")))>>
      [] T = "Resume"   -> <<Field("skills", AList(AStr)), Field("note", AOptional(AStr))>>
      [] T = "Ticket"   -> <<Field("id", AStr),
                             Field("owner", AUnion(<<ANoneType, AModel("Member")>>)),
                             Field("note", AUnion(<<ANoneType, AStr>>))>>
      [] T = "Profile"  -> <<Field("id", AStr), Field("resume", AOptional(AModel("Resume")))>>
      [] T = "Invoice"  -> <<Field("id", AStr), Field("customer", AModel("Customer"))>>
      [] T = "Entry"    -> <<Field("id", AStr), Field("order", AOptional(AStr))>>
      [] T = "Pair"     -> <<Field("id", AStr), Field("customer", AOptional(AModel("Customer"))),
                             Field("member", AOptional(AModel("Member")))>>
      [] T = "Node"     -> <<Field("id", AStr), Field("parent", AOptional(AModel("Node")))>>
      [] T = "Employee" -> <<Field("id", AStr), Field("team", AOptional(AModel("Team")))>>
      [] T = "Team"     -> <<Field("id", AStr), Field("lead", AOptional(AModel("Employee")))>>
      [] T = "Review"   -> <<Field("id", AStr), Field("customer", AOptional(AModel("Customer"))),
                             Field("items", AList(AModel("LineItem")))>>
      [] T \in {"Tag", "TAG", "Boss", "Bosse"} -> <<Field("id", AStr), Field("name", AOptional(AStr))>>

\* getattr(model, field_name)
FieldIndex(T, name) == CHOOSE i \in 1..Len(model_fields(T)) : model_fields(T)[i].name = name
GetAttr(e, name) == FieldsOf(e)[FieldIndex(TypeOf(e), name)]

----------------------------------------------------------------------------
(* Table name and primary key derivation *)

lower(c) ==
    CASE c = "A" -> "a" [] c = "B" -> "b" [] c = "C" -> "c" [] c = "D" -> "d" [] c = "E" -> "e"
      [] c = "F" -> "f" [] c = "G" -> "g" [] c = "H" -> "h" [] c = "I" -> "i" [] c = "J" -> "j"
      [] c = "K" -> "k" [] c = "L" -> "l" [] c = "M" -> "m" [] c = "N" -> "n" [] c = "O" -> "o"
      [] c = "P" -> "p" [] c = "Q" -> "q" [] c = "R" -> "r" [] c = "S" -> "s" [] c = "T" -> "t"
      [] c = "U" -> "u" [] c = "V" -> "v" [] c = "W" -> "w" [] c = "X" -> "x" [] c = "Y" -> "y"
      [] c = "Z" -> "z"
      [] OTHER -> c

str_lower(name) == [i \in 1..Len(name) |-> lower(name[i])]

pluralize(table_name) ==
    IF Len(table_name) > 0 /\ table_name[Len(table_name)] = "s"
    THEN table_name \o <<"e", "s">>
    ELSE table_name \o <<"s">>

get_table_name_from_class_name(T) == [raised |-> FALSE, name |-> ClassName(T)]

\* the class the core schema of a pydantic model names is the model itself
get_table_name_from_schema(T) == [raised |-> FALSE, name |-> ClassName(T)]

\* the class attribute table_name of the classes that declare one (Member declares an
\* empty one)
TableNameAttr(T) ==
    CASE T = "Pair" -> <<<<"p", "a", "i", "r", "s">>>>
      [] T = "Customer" -> <<<<"c", "l", "i", "e", "n", "t">>>>
      [] T = "Member" -> <<<<>>>>
      [] OTHER -> <<>>

\* getattr(model, "table_name") raises AttributeError on a class without the attribute
get_table_name_from_class_attr(T) ==
    IF Len(TableNameAttr(T)) = 0 THEN [raised |-> TRUE, name |-> <<>>]
    ELSE [raised |-> FALSE, name |-> TableNameAttr(T)[1]]

\* model.__bases__[1] raises IndexError on a class with the one base BaseModel
get_table_name_from__bases__(T) == [raised |-> TRUE, name |-> <<>>]

CallGetter(g, T) ==
    CASE g = "class_name" -> get_table_name_from_class_name(T)
      [] g = "schema"     -> get_table_name_from_schema(T)
      [] g = "class_attr" -> get_table_name_from_class_attr(T)
      [] g = "bases"      -> get_table_name_from__bases__(T)

\* the first getter, in order, that neither raises nor returns an empty name
RECURSIVE get_table_name(_, _)

\* a variant of get_table_name without the fallback: only the first getter is consulted
get_table_name_FirstOnly(T, getters) ==
    IF Len(getters) = 0 THEN [raised |-> TRUE, name |-> <<>>]
    ELSE LET r == CallGetter(getters[1], T)
         IN  IF ~r.raised /\ Len(r.name) > 0 THEN r ELSE [raised |-> TRUE, name |-> <<>>]

get_table_name(T, getters) ==
    IF Len(getters) = 0 THEN [raised |-> TRUE, name |-> <<>>]
    ELSE LET r == CallGetter(getters[1], T)
         IN  IF ~r.raised /\ Len(r.name) > 0 THEN r
             ELSE get_table_name(T, Tail(getters))

CallTransformer(t, name) ==
    CASE t = "lower"     -> str_lower(name)
      [] t = "pluralize" -> pluralize(name)

RECURSIVE transform_table_name(_, _)
transform_table_name(name, transformers) ==
    IF Len(transformers) = 0 THEN name
    ELSE transform_table_name(CallTransformer(transformers[1], name), Tail(transformers))

get_primary_key_from_first_field(T) == model_fields(T)[1].name

\* the defaults of BaseDB.__init__
DefaultGetters == <<"class_name", "schema">>
DefaultTransformers == <<"lower", "pluralize">>

----------------------------------------------------------------------------
(* The type classifier *)

\* a storage category is <<"sql", name>> or <<"model", T>>
Sql(n) == <<"sql", n>>
NoItem == <<"none", "">>
PairItem(k, v) == <<"pair", <<k, v>>>>

is_base_model(t) == t[1] = "model"

SQLDANTIC_TYPE_MAP ==
    [k \in {"None", "str", "bytes", "bytearray", "bool", "int", "float", "datetime",
            "typing.Union", "typing.Annotated", "typing.Sequence", "typing.Mapping"} |->
        CASE k = "None" -> "NULL"
          [] k = "str" -> "TEXT"
          [] k \in {"bytes", "bytearray"} -> "BLOB"
          [] k \in {"bool", "int"} -> "INTEGER"
          [] k = "float" -> "REAL"
          [] k = "datetime" -> "TIMESTAMP"
          [] k = "typing.Union" -> "UNION"
          [] k = "typing.Annotated" -> "ANNOTATED"
          [] k = "typing.Sequence" -> "SEQUENCE"
          [] k = "typing.Mapping" -> "MAPPING"]

\* sqldantic_type_map.get(annotation, "UNKNOWN")
MapGet(map, annotation) ==
    IF annotation[2] = <<>> /\ annotation[1] \in DOMAIN map
    THEN Sql(map[annotation[1]])
    ELSE Sql("UNKNOWN")

RECURSIVE get_sqldantic_type(_, _)
RECURSIVE FirstConcrete(_, _)

\* the loop over get_args(annotation) of a Union or Annotated: the result of
\* the first argument that is not None and does not classify as a wrapper
FirstConcrete(args, i) ==
    IF i > Len(args) THEN [found |-> FALSE, type |-> Sql("UNKNOWN"), item |-> NoItem]
    ELSE IF args[i][1] = "None" THEN FirstConcrete(args, i + 1)
    ELSE LET r == get_sqldantic_type(args[i], SQLDANTIC_TYPE_MAP)
         IN  IF r.type \notin {Sql("UNION"), Sql("ANNOTATED")}
             THEN [found |-> TRUE, type |-> r.type, item |-> r.item]
             ELSE FirstConcrete(args, i + 1)

get_sqldantic_type(annotation, map) ==
    LET kind == annotation[1]
        args == annotation[2]
        fallback == [type |-> MapGet(map, annotation), item |-> NoItem]
    IN  IF kind = "model" THEN [type |-> <<"model", args[1]>>, item |-> NoItem]
        ELSE IF kind \in {"Union", "Annotated"} THEN
            LET r == FirstConcrete(args, 1)
            IN  IF r.found THEN [type |-> r.type, item |-> r.item] ELSE fallback
        ELSE IF kind = "List" THEN
            IF Len(args) = 0 THEN [type |-> Sql("SEQUENCE"), item |-> Sql("UNKNOWN")]
            ELSE [type |-> Sql("SEQUENCE"),
                  item |-> get_sqldantic_type(args[1], SQLDANTIC_TYPE_MAP).type]
        ELSE IF kind = "Dict" THEN
            IF Len(args) = 0 THEN [type |-> Sql("MAPPING"), item |-> Sql("UNKNOWN")]
            ELSE [type |-> Sql("MAPPING"),
                  item |-> PairItem(get_sqldantic_type(args[1], SQLDANTIC_TYPE_MAP).type,
                                    get_sqldantic_type(args[2], SQLDANTIC_TYPE_MAP).type)]
        ELSE fallback

\* field name -> (category, item category), in declaration order
get_model_sqldantic_fields(T, map) ==
    [i \in 1..Len(model_fields(T)) |->
        LET r == get_sqldantic_type(model_fields(T)[i].annotation, map)
        IN  [name |-> model_fields(T)[i].name, type |-> r.type, item |-> r.item]]

\* SQLDanticSchema(model) with the configuration BaseDB.get_sqldantic_schema passes
SQLDanticSchema(T) ==
    [model |-> T,
     table_name |-> transform_table_name(get_table_name(T, DefaultGetters).name,
                                         DefaultTransformers),
     primary_key |-> get_primary_key_from_first_field(T),
     sqldantic_fields |-> get_model_sqldantic_fields(T, SQLDANTIC_TYPE_MAP)]

\* the schema is a function of the class alone: derived once per class here
Schemas == [T \in ModelTypes |-> SQLDanticSchema(T)]

\* a variant of get_sqldantic_schema that leaves the pluralize transformer out
get_sqldantic_schema_Singular(T) ==
    [Schemas[T] EXCEPT !.table_name = transform_table_name(get_table_name(T, DefaultGetters).name,
                                                           <<"lower">>)]

get_sqldantic_schema(T) == Schemas[T]

TableOf(T) == get_sqldantic_schema(T).table_name
PkOf(e) == GetAttr(e, get_sqldantic_schema(TypeOf(e)).primary_key)

----------------------------------------------------------------------------
(* The sqlite3 database behind the connection *)

\* a statement and its bound values, as a query factory returns them
Query(kind, table, cols, pk, where, values, nph) ==
    [kind |-> kind, table |-> table, cols |-> cols, pk |-> pk, where |-> where,
     values |-> values, nph |-> nph]

NoError == [kind |-> "", msg |-> <<>>]
SqliteError(kind, msg) == [kind |-> kind, msg |-> msg]
PythonError(kind) == [kind |-> kind, msg |-> <<>>]

AllTables == {TableOf(T) : T \in ModelTypes}
NoTable == [exists |-> FALSE, cols |-> <<>>, pk |-> "", rows |-> <<>>]

ColIndex(cols, name) == CHOOSE i \in 1..Len(cols) : cols[i] = name
HasCol(cols, name) == \E i \in 1..Len(cols) : cols[i] = name

\* the rows of a table whose column col holds one of the values (NULL never matches)
Matching(t, col, values) ==
    {i \in 1..Len(t.rows) :
        /\ ~IsNone(t.rows[i][ColIndex(t.cols, col)])
        /\ \E j \in 1..Len(values) : values[j] = t.rows[i][ColIndex(t.cols, col)]}

\* character order of the text collation
CharOrder == <<",", "a", "b", "k", "x", "y">>
CharRank(c) == CHOOSE i \in 1..Len(CharOrder) : CharOrder[i] = c

RECURSIVE TextLess(_, _)
TextLess(s, t) ==
    IF Len(t) = 0 THEN FALSE
    ELSE IF Len(s) = 0 THEN TRUE
    ELSE IF s[1] # t[1] THEN CharRank(s[1]) < CharRank(t[1])
    ELSE TextLess(Tail(s), Tail(t))

\* the row numbers in idx in ascending rowid order
RECURSIVE InRowidOrder(_)
InRowidOrder(idx) ==
    IF idx = {} THEN <<>>
    ELSE LET i == CHOOSE j \in idx : \A k \in idx : j <= k
         IN  <<i>> \o InRowidOrder(idx \ {i})

\* the row numbers in idx in ascending order of the key column (an index scan)
RECURSIVE InKeyOrder(_, _, _)
InKeyOrder(t, col, idx) ==
    IF idx = {} THEN <<>>
    ELSE LET key(i) == t.rows[i][ColIndex(t.cols, col)][2]
             i == CHOOSE j \in idx : \A k \in idx : k = j \/ ~TextLess(key(k), key(j))
         IN  <<i>> \o InKeyOrder(t, col, idx \ {i})

\* column names that are keywords of the SQL grammar: a statement naming one unquoted
\* does not parse
ReservedWords == {"order"}
NamesReserved(cols) == \E i \in 1..Len(cols) : cols[i] \in ReservedWords

\* the values sqlite3 can bind to a placeholder: None and text (lists, dicts and model
\* instances are not supported)
Bindable(values) == \A i \in 1..Len(values) : values[i][1] \in {"None", "str", "json"}

\* cursor.execute(query, values): the database after it, the error it raises and the rows
\* it leaves in the cursor
sqlite_execute(d, q) ==
    LET t == d[q.table]
        fail(e) == [db |-> d, error |-> e, rows |-> <<>>]
        unbound == SqliteError("ProgrammingError", <<"Error binding parameter">>)
        done(t2, rows) == [db |-> [d EXCEPT ![q.table] = t2], error |-> NoError, rows |-> rows]
        syntax == SqliteError("OperationalError", <<"near order", "syntax error">>)
    IN  CASE q.kind = "CREATE" ->
                IF NamesReserved(q.cols) THEN fail(syntax)
                ELSE IF t.exists
                THEN IF q.where = "IF NOT EXISTS" THEN done(t, <<>>)
                     ELSE fail(SqliteError("OperationalError", <<"table already exists">>))
                ELSE done([exists |-> TRUE, cols |-> q.cols, pk |-> q.pk, rows |-> <<>>], <<>>)
          [] q.kind = "INSERT" ->
                IF NamesReserved(q.cols) THEN fail(syntax)
                ELSE IF ~t.exists
                THEN fail(SqliteError("OperationalError", <<"no such table">>))
                ELSE IF ~Bindable(q.values) THEN fail(unbound)
                ELSE IF t.pk # "" /\ Matching(t, t.pk, <<q.values[ColIndex(q.cols, t.pk)]>>) # {}
                THEN fail(SqliteError("IntegrityError", <<"UNIQUE constraint failed", t.pk>>))
                ELSE done([t EXCEPT !.rows = Append(@, q.values)], <<>>)
          [] q.kind = "UPDATE" ->
                IF Len(q.cols) = 0
                THEN fail(SqliteError("OperationalError", <<"near WHERE", "syntax error">>))
                ELSE IF NamesReserved(q.cols) THEN fail(syntax)
                ELSE IF ~t.exists THEN fail(SqliteError("OperationalError", <<"no such table">>))
                ELSE IF ~Bindable(q.values) THEN fail(unbound)
                ELSE LET hit == Matching(t, q.pk, <<q.values[Len(q.values)]>>)
                         set(row) == [c \in 1..Len(t.cols) |->
                                        IF HasCol(q.cols, t.cols[c])
                                        THEN q.values[ColIndex(q.cols, t.cols[c])]
                                        ELSE row[c]]
                     IN  done([t EXCEPT !.rows = [i \in 1..Len(t.rows) |->
                                    IF i \in hit THEN set(t.rows[i]) ELSE t.rows[i]]], <<>>)
          [] q.kind = "DELETE" ->
                IF ~t.exists THEN fail(SqliteError("OperationalError", <<"no such table">>))
                ELSE IF ~Bindable(q.values) THEN fail(unbound)
                ELSE LET keep == (1..Len(t.rows)) \ Matching(t, q.pk, q.values)
                         order == InRowidOrder(keep)
                     IN  done([t EXCEPT !.rows = [i \in 1..Len(order) |-> t.rows[order[i]]]], <<>>)
          [] q.kind = "SELECT" ->
                IF q.where = "WHERE"
                THEN fail(SqliteError("OperationalError", <<"incomplete input">>))
                ELSE IF ~t.exists
                THEN fail(SqliteError("OperationalError", <<"no such table">>))
                ELSE IF q.where # "" /\ ~HasCol(t.cols, q.pk)
                THEN fail(SqliteError("OperationalError", <<"no such column">>))
                ELSE IF ~Bindable(q.values) THEN fail(unbound)
                ELSE LET hit == IF q.where = "" THEN 1..Len(t.rows)
                                ELSE Matching(t, q.pk, q.values)
                         order == IF q.where # "" /\ t.pk = q.pk
                                  THEN InKeyOrder(t, q.pk, hit)
                                  ELSE InRowidOrder(hit)
                     IN  done(t, [i \in 1..Len(order) |-> t.rows[order[i]]])

----------------------------------------------------------------------------
(* The error policy and the execution layer *)

KindItem(k) == <<"kind", k>>
PrefixItem(p) == <<"prefix", p>>
Policy(all, items) == [all |-> all, items |-> items]

\* a variant of the default that names no error
DefaultPolicy_Strict == Policy(FALSE, <<>>)

\* the default of BaseDB.__init__
DefaultPolicy == Policy(FALSE, <<PrefixItem(<<"UNIQUE constraint failed">>)>>)

\* the attribute ignore_sqlite_errors of an instance whose __init__ has not assigned it yet
Unassigned == Policy(FALSE, <<<<"unassigned", "">>>>)

\* any(error_str.startswith(ignored) for ignored in policy): str.startswith raises
\* TypeError on an exception class
RECURSIVE AnyStartsWith(_, _)
AnyStartsWith(msg, items) ==
    IF Len(items) = 0 THEN "no"
    ELSE IF items[1][1] = "kind" THEN "TypeError"
    ELSE IF IsPrefix(items[1][2], msg) THEN "yes"
    ELSE AnyStartsWith(msg, Tail(items))

\* what the wrapper does with a sqlite error e: "swallow" (return None), "raise" (e itself),
\* "TypeError" or "AttributeError" (raised while e is handled)
catch_sqlite_errors(pol, e) ==
    IF pol = Unassigned THEN "AttributeError"
    ELSE IF ~(pol.all \/ Len(pol.items) > 0) THEN "raise"
    ELSE IF pol.all THEN "swallow"
    ELSE IF \E i \in 1..Len(pol.items) : pol.items[i] = KindItem(e.kind) THEN "swallow"
    ELSE IF Len(e.msg) = 0 THEN "raise"
    ELSE LET r == AnyStartsWith(e.msg, pol.items)
         IN  CASE r = "yes" -> "swallow"
               [] r = "no" -> "raise"
               [] r = "TypeError" -> "TypeError"

\* what execute_and_commit makes of the result r of cursor.execute: the commit, or the
\* error swallowed or raised by the wrapper
Committed(d, pol, r) ==
    IF r.error = NoError
    THEN [db |-> r.db, outcome |-> "ok", error |-> NoError, raised |-> NoError, rows |-> r.rows]
    ELSE LET c == catch_sqlite_errors(pol, r.error)
         IN  [db |-> d,
              outcome |-> IF c = "swallow" THEN "ignored" ELSE "raised",
              error |-> r.error,
              raised |-> CASE c = "swallow" -> NoError
                           [] c = "raise" -> r.error
                           [] c = "TypeError" -> PythonError("TypeError")
                           [] c = "AttributeError" -> PythonError("AttributeError"),
              rows |-> <<>>]

\* execute_and_commit under catch_sqlite_errors
execute_and_commit(d, pol, q) == Committed(d, pol, sqlite_execute(d, q))

LogEntry(q, r) == [query |-> q, outcome |-> r.outcome, error |-> r.error]

Ran(d, log, raised) == [db |-> d, log |-> log, raised |-> raised]
Logged(entry, rest) == [rest EXCEPT !.log = <<entry>> \o @]

\* execute_queries: each query executed and committed in turn, until one raises;
\* gen is what the generator yields and the error it ends with, if any
RECURSIVE execute_queries(_, _, _, _)
RECURSIVE ExecuteNext(_, _, _, _)

\* a variant of the loop body that goes on to the next query after one raised
ExecuteNext_Continue(r, pol, gen, i) ==
    Logged(LogEntry(gen.queries[i], r), execute_queries(r.db, pol, gen, i + 1))

\* the loop body, r being what execute_and_commit did with the i-th query
ExecuteNext(r, pol, gen, i) ==
    IF r.raised # NoError
    THEN Ran(r.db, <<LogEntry(gen.queries[i], r)>>, r.raised)
    ELSE Logged(LogEntry(gen.queries[i], r), execute_queries(r.db, pol, gen, i + 1))

execute_queries(d, pol, gen, i) ==
    IF i > Len(gen.queries) THEN Ran(d, <<>>, gen.raised)
    ELSE ExecuteNext(execute_and_commit(d, pol, gen.queries[i]), pol, gen, i)

----------------------------------------------------------------------------
(* Table creation *)

\* the classes whose tables a field of category (type, item) makes the walk recurse into,
\* in the order of the recursion
NestedModels(f) ==
    IF is_base_model(f.type) THEN <<f.type[2]>>
    ELSE IF f.type = Sql("SEQUENCE") THEN
        IF is_base_model(f.item) THEN <<f.item[2]>> ELSE <<>>
    ELSE IF f.type = Sql("MAPPING") /\ f.item[1] = "pair" THEN
        (IF is_base_model(f.item[2][1]) THEN <<f.item[2][1][2]>> ELSE <<>>)
        \o (IF is_base_model(f.item[2][2]) THEN <<f.item[2][2][2]>> ELSE <<>>)
    ELSE <<>>

\* TRUE for the fields whose column definition comes from the last branch, the only one
\* that can add PRIMARY KEY
PlainColumn(f) ==
    /\ ~is_base_model(f.type)
    /\ f.type # Sql("SEQUENCE")
    /\ ~(f.type = Sql("MAPPING") /\ f.item[1] = "pair")

\* a variant of create_table_query that never says IF NOT EXISTS
create_table_query_Plain(schema, if_not_exists) ==
    LET fs == schema.sqldantic_fields
        keyed == {i \in 1..Len(fs) : PlainColumn(fs[i]) /\ fs[i].name = schema.primary_key}
    IN  Query("CREATE", schema.table_name, [i \in 1..Len(fs) |-> fs[i].name],
              IF keyed = {} THEN "" ELSE schema.primary_key, "", <<>>, 0)

\* the CREATE TABLE statement of one class
create_table_query(schema, if_not_exists) ==
    LET fs == schema.sqldantic_fields
        keyed == {i \in 1..Len(fs) : PlainColumn(fs[i]) /\ fs[i].name = schema.primary_key}
    IN  Query("CREATE", schema.table_name, [i \in 1..Len(fs) |-> fs[i].name],
              IF keyed = {} THEN "" ELSE schema.primary_key,
              IF if_not_exists THEN "IF NOT EXISTS" ELSE "", <<>>, 0)

RECURSIVE recusive_create_table_queries(_, _)
RECURSIVE CreateNested(_, _, _)

\* the statements the walk over the fields from the i-th on yields
CreateNested(T, if_not_exists, i) ==
    LET fs == get_sqldantic_schema(T).sqldantic_fields
        nested == NestedModels(fs[i])
    IN  IF i > Len(fs) THEN <<>>
        ELSE (IF Len(nested) >= 1
              THEN recusive_create_table_queries(nested[1], if_not_exists) ELSE <<>>)
             \o (IF Len(nested) >= 2
                 THEN recusive_create_table_queries(nested[2], if_not_exists) ELSE <<>>)
             \o CreateNested(T, if_not_exists, i + 1)

recusive_create_table_queries(T, if_not_exists) ==
    CreateNested(T, if_not_exists, 1)
    \o <<create_table_query(get_sqldantic_schema(T), if_not_exists)>>

----------------------------------------------------------------------------
(* Query factories of the write path *)

insert_query_factory(schema, names, values) ==
    Query("INSERT", schema.table_name, names, "", "", values, Len(names))

\* a variant of update_query_factory that writes the row whether or not it is stored
update_query_factory_Upsert(schema, names, values) ==
    insert_query_factory(schema, names, values)

update_query_factory(schema, names, values) ==
    LET k == ColIndex(names, schema.primary_key)
        rest == InRowidOrder((1..Len(names)) \ {k})
    IN  Query("UPDATE", schema.table_name,
              [i \in 1..Len(rest) |-> names[rest[i]]],
              schema.primary_key, "pk = ?",
              [i \in 1..Len(rest) |-> values[rest[i]]] \o <<values[k]>>,
              Len(rest) + 1)

delete_query_factory(schema, names, values) ==
    Query("DELETE", schema.table_name, <<>>, schema.primary_key, "pk = ?",
          <<values[ColIndex(names, schema.primary_key)]>>, 1)

CallFactory(factory, schema, names, values) ==
    CASE factory = "insert" -> insert_query_factory(schema, names, values)
      [] factory = "update" -> update_query_factory(schema, names, values)
      [] factory = "delete" -> delete_query_factory(schema, names, values)

----------------------------------------------------------------------------
(* The write walker *)

\* the reprs of the strs of a list, separated as str(list) separates them
RECURSIVE ReprItems(_)
ReprItems(items) ==
    IF Len(items) = 0 THEN <<>>
    ELSE <<"'">> \o items[1][2] \o <<"'">>
         \o (IF Len(items) > 1 THEN <<",", " ">> ELSE <<>>)
         \o ReprItems(Tail(items))

\* str(value)
PyStr(v) ==
    IF IsNone(v) THEN Str(<<"N", "o", "n", "e">>)
    ELSE IF v[1] = "list" THEN Str(<<"[">> \o ReprItems(v[2]) \o <<"]">>)
    ELSE v

\* json.dumps raises TypeError on a model instance
RECURSIVE JsonSerializable(_)
JsonSerializable(v) ==
    CASE v[1] = "obj" -> FALSE
      [] v[1] = "list" -> \A i \in 1..Len(v[2]) : JsonSerializable(v[2][i])
      [] v[1] = "dict" -> \A i \in 1..Len(v[2]) : JsonSerializable(v[2][i][2])
      [] OTHER -> TRUE

\* the TEXT cell holding the JSON document of v, and back
json_dumps(v) == <<"json", v>>
IsJson(cell) == cell[1] = "json"
json_loads(cell) == cell[2]

Gen(queries, value, raised) == [queries |-> queries, value |-> value, raised |-> raised]

\* g, then rest: the queries of both and the values of both
Then(g, rest) ==
    IF g.raised # NoError THEN Gen(g.queries, <<>>, g.raised)
    ELSE Gen(g.queries \o rest.queries, <<g.value>> \o rest.value, rest.raised)

\* the queries of g with the column value v
WithValue(g, v) == Gen(g.queries, v, g.raised)

RECURSIVE recursive_modify_table_queries(_, _)
RECURSIVE FlattenFields(_, _, _)
RECURSIVE FlattenField(_, _, _)
RECURSIVE FlattenItems(_, _, _)
RECURSIVE FlattenValues(_, _, _)

\* the loop over the items of a sequence of models: the queries of each item in turn and
\* the primary keys collected
FlattenItems(items, factory, i) ==
    IF i > Len(items) THEN Gen(<<>>, <<>>, NoError)
    ELSE Then(WithValue(recursive_modify_table_queries(items[i], factory), PkOf(items[i])),
              FlattenItems(items, factory, i + 1))

\* the loop over the items of a mapping with model values: key -> primary key
FlattenValues(pairs, factory, i) ==
    IF i > Len(pairs) THEN Gen(<<>>, <<>>, NoError)
    ELSE Then(WithValue(recursive_modify_table_queries(pairs[i][2], factory),
                        <<pairs[i][1], PkOf(pairs[i][2])>>),
              FlattenValues(pairs, factory, i + 1))

\* the column of a sequence of models, g.value being the primary keys collected
JoinedKeys(g) ==
    Gen(g.queries, Str(Join([k \in 1..Len(g.value) |-> PyStr(g.value[k])[2]])), g.raised)

\* the column of a mapping with model values, g.value being the key -> primary key pairs
DumpedKeys(g) == Gen(g.queries, json_dumps(Dict(g.value)), g.raised)

\* json.dumps(value) as a column
Dumped(value) ==
    IF JsonSerializable(value) THEN Gen(<<>>, json_dumps(value), NoError)
    ELSE Gen(<<>>, None, PythonError("TypeError"))

\* one field: the queries of the models nested in it and the value of its column
FlattenField(model, factory, i) ==
    LET f == get_sqldantic_schema(TypeOf(model)).sqldantic_fields[i]
        value == FieldsOf(model)[i]
    IN  IF IsNone(value) THEN Gen(<<>>, None, NoError)
        ELSE IF is_base_model(f.type) THEN
            WithValue(recursive_modify_table_queries(value, factory), PyStr(PkOf(value)))
        ELSE IF f.type = Sql("SEQUENCE") THEN
            IF is_base_model(f.item) THEN JoinedKeys(FlattenItems(value[2], factory, 1))
            ELSE Gen(<<>>, Str(Join([k \in 1..Len(value[2]) |-> PyStr(value[2][k])[2]])),
                     NoError)
        ELSE IF f.type = Sql("MAPPING") THEN
            IF is_base_model(f.item[2][2]) THEN DumpedKeys(FlattenValues(value[2], factory, 1))
            ELSE Dumped(value)
        ELSE IF f.type = Sql("UNKNOWN") THEN
            IF is_base_model(f.item)
            THEN WithValue(recursive_modify_table_queries(value, factory), PkOf(value))
            ELSE Dumped(value)
        ELSE Gen(<<>>, value, NoError)

\* the loop over the fields from the i-th on: queries yielded and model_dict values
FlattenFields(model, factory, i) ==
    IF i > Len(FieldsOf(model)) THEN Gen(<<>>, <<>>, NoError)
    ELSE Then(FlattenField(model, factory, i), FlattenFields(model, factory, i + 1))

\* a variant of RootQuery that puts the statement of the model before the statements of
\* the models it holds
RootQuery_ParentFirst(g, schema, factory) ==
    IF g.raised # NoError THEN Gen(g.queries, <<>>, g.raised)
    ELSE Gen(<<CallFactory(factory, schema,
                           [i \in 1..Len(schema.sqldantic_fields) |->
                                schema.sqldantic_fields[i].name],
                           g.value)>>
                \o g.queries,
             <<>>, NoError)

\* the query of the model itself after the queries g of the models nested in it
RootQuery(g, schema, factory) ==
    IF g.raised # NoError THEN Gen(g.queries, <<>>, g.raised)
    ELSE Gen(g.queries
                \o <<CallFactory(factory, schema,
                                 [i \in 1..Len(schema.sqldantic_fields) |->
                                    schema.sqldantic_fields[i].name],
                                 g.value)>>,
             <<>>, NoError)

\* the queries the generator yields, children first, and the error it ends with if any
recursive_modify_table_queries(model, factory) ==
    RootQuery(FlattenFields(model, factory, 1), get_sqldantic_schema(TypeOf(model)), factory)

\* the flattened row of a model: the values of its INSERT statement
FlatRow(model) == FlattenFields(model, "insert", 1).value

----------------------------------------------------------------------------
(* Select query factories *)

\* a variant of primary_key_select_query_factory that never adds the WHERE clause
primary_key_select_query_factory_All(schema, args) ==
    Query("SELECT", schema.table_name, <<>>, schema.primary_key, "", <<>>, 0)

primary_key_select_query_factory(schema, args) ==
    IF Len(args) > 0
    THEN Query("SELECT", schema.table_name, <<>>, schema.primary_key, "pk IN", args, Len(args))
    ELSE Query("SELECT", schema.table_name, <<>>, schema.primary_key, "", args, 0)

\* a caller's factory that returns a statement other than a SELECT
non_select_query_factory(schema, args) ==
    Query("DELETE", schema.table_name, <<>>, schema.primary_key, "pk IN", args, Len(args))

\* a caller's factory with one placeholder whatever the number of values it returns
one_placeholder_query_factory(schema, args) ==
    Query("SELECT", schema.table_name, <<>>, schema.primary_key, "pk IN", args, 1)

SelectFactories == {"primary_key", "non_select", "one_placeholder"}

\* by_keys_select_query_factory called with the keyword arguments kwargs, a sequence of at
\* most one <<key, value>>: the positional arguments are not used, and a str value is a
\* Sequence, so the condition is key IN (?, ...) over its characters
by_keys_select_query_factory(schema, args, kwargs) ==
    IF Len(kwargs) = 0
    THEN Query("SELECT", schema.table_name, <<>>, "", "WHERE", <<>>, 0)
    ELSE Query("SELECT", schema.table_name, <<kwargs[1][1]>>, kwargs[1][1], "pk IN",
               [k \in 1..Len(kwargs[1][2][2]) |-> Str(<<kwargs[1][2][2][k]>>)],
               Len(kwargs[1][2][2]))

\* get calls with select_query_factory=by_keys_select_query_factory and the keyword
\* arguments: none, id='a', customer='b'
ByKeysFactories == {"by_keys", "by_keys_id_a", "by_keys_customer_b"}

KwargsOf(factory) ==
    CASE factory = "by_keys_id_a" -> <<<<"id", Str(<<"a">>)>>>>
      [] factory = "by_keys_customer_b" -> <<<<"customer", Str(<<"b">>)>>>>
      [] OTHER -> <<>>

CallSelectFactory(factory, schema, args) ==
    CASE factory = "primary_key" -> primary_key_select_query_factory(schema, args)
      [] factory = "non_select" -> non_select_query_factory(schema, args)
      [] factory = "one_placeholder" -> one_placeholder_query_factory(schema, args)
      [] factory \in ByKeysFactories ->
            by_keys_select_query_factory(schema, args, KwargsOf(factory))

\* the check iter_models makes on what the factory returned
ContractBroken(q) == q.kind # "SELECT" \/ q.nph # Len(q.values)

----------------------------------------------------------------------------
(* The read walker *)

\* what a call of the generator did: the database after it, the models it yielded, the
\* statements it executed and the error it raised, if any
Got(d, items, log, raised) == [db |-> d, items |-> items, log |-> log, raised |-> raised]

IsOptional(annotation) ==
    /\ annotation[1] = "Union"
    /\ \E i \in 1..Len(annotation[2]) : annotation[2][i] = ANoneType

\* sqldantic_schema.model(**model_dict): pydantic rejects None for a field that is not Optional
ValidationFails(T, values) ==
    \E i \in 1..Len(values) : IsNone(values[i]) /\ ~IsOptional(model_fields(T)[i].annotation)

\* g, then rest: the statements of both and the items of both
AndThen(g, rest) ==
    IF g.raised # NoError THEN Got(g.db, <<>>, g.log, g.raised)
    ELSE Got(rest.db, <<g.items>> \o rest.items, g.log \o rest.log, rest.raised)

\* a variant of FirstOrNone that lets StopIteration out
FirstOrNone_Uncaught(g) ==
    IF g.raised = NoError /\ Len(g.items) = 0
    THEN Got(g.db, None, g.log, PythonError("StopIteration"))
    ELSE Got(g.db, IF Len(g.items) > 0 THEN g.items[1] ELSE None, g.log, g.raised)

\* next(generator), None when it yields nothing
FirstOrNone(g) == Got(g.db, IF Len(g.items) > 0 THEN g.items[1] ELSE None, g.log, g.raised)

\* next(generator), StopIteration when it yields nothing
FirstOrStop(g) ==
    IF g.raised = NoError /\ Len(g.items) = 0
    THEN Got(g.db, None, g.log, PythonError("StopIteration"))
    ELSE FirstOrNone(g)

\* list(generator)
AsList(g) == Got(g.db, List(g.items), g.log, g.raised)

RECURSIVE iter_models(_, _, _, _, _, _)
RECURSIVE HydrateRows(_, _, _, _, _, _, _)
RECURSIVE HydrateRow(_, _, _, _, _, _)
RECURSIVE HydrateField(_, _, _, _, _, _)
RECURSIVE RestOfRow(_, _, _, _, _, _)
RECURSIVE RestOfRows(_, _, _, _, _, _, _)

\* value.split(separator) as a tuple of strs
SplitValues(value) == [k \in 1..Len(Split(value[2])) |-> Str(Split(value[2])[k])]

\* one column of a row: the value of the field, in items
HydrateField(d, pol, T, row, factory, i) ==
    LET f == get_sqldantic_schema(T).sqldantic_fields[i]
        value == row[i]
    IN  IF IsNone(value) THEN Got(d, None, <<>>, NoError)
        ELSE IF is_base_model(f.type) THEN
            FirstOrNone(iter_models(d, pol, f.type[2], <<value>>, factory, TRUE))
        ELSE IF f.type = Sql("SEQUENCE") THEN
            IF is_base_model(f.item)
            THEN AsList(iter_models(d, pol, f.item[2], SplitValues(value), factory, FALSE))
            ELSE Got(d, List(SplitValues(value)), <<>>, NoError)
        ELSE IF f.type = Sql("MAPPING") /\ f.item[1] = "pair" THEN
            IF ~IsJson(value) THEN Got(d, None, <<>>, PythonError("JSONDecodeError"))
            ELSE IF is_base_model(f.item[2][2])
            THEN Got(d, None, <<>>, PythonError("UnboundLocalError"))
            ELSE Got(d, json_loads(value), <<>>, NoError)
        ELSE IF f.type = Sql("UNKNOWN") THEN
            IF is_base_model(f.item)
            THEN FirstOrStop(iter_models(d, pol, f.item[2], <<value>>, factory, TRUE))
            ELSE IF ~IsJson(value) THEN Got(d, None, <<>>, PythonError("JSONDecodeError"))
            ELSE Got(d, json_loads(value), <<>>, NoError)
        ELSE Got(d, value, <<>>, NoError)

\* the columns after the i-th, g being what the i-th did
RestOfRow(g, pol, T, row, factory, i) ==
    IF g.raised # NoError THEN Got(g.db, <<>>, g.log, g.raised)
    ELSE AndThen(g, HydrateRow(g.db, pol, T, row, factory, i + 1))

\* the columns of one row from the i-th on: the values of model_dict, in items
HydrateRow(d, pol, T, row, factory, i) ==
    IF i > Len(get_sqldantic_schema(T).sqldantic_fields) THEN Got(d, <<>>, <<>>, NoError)
    ELSE RestOfRow(HydrateField(d, pol, T, row, factory, i), pol, T, row, factory, i)

\* the model made of the i-th row, whose model_dict is in g, and the rows after it; only
\* the model of the first row when the caller takes one item from the generator
RestOfRows(g, pol, T, rows, factory, first, i) ==
    IF g.raised # NoError THEN Got(g.db, <<>>, g.log, g.raised)
    ELSE IF ValidationFails(T, g.items)
    THEN Got(g.db, <<>>, g.log, PythonError("ValidationError"))
    ELSE IF first THEN Got(g.db, <<Obj(T, g.items)>>, g.log, NoError)
    ELSE AndThen(Got(g.db, Obj(T, g.items), g.log, NoError),
                 HydrateRows(g.db, pol, T, rows, factory, first, i + 1))

\* the fetched rows from the i-th on, each made a model
HydrateRows(d, pol, T, rows, factory, first, i) ==
    IF i > Len(rows) THEN Got(d, <<>>, <<>>, NoError)
    ELSE RestOfRows(HydrateRow(d, pol, T, rows[i], factory, 1), pol, T, rows, factory, first, i)

\* the statement logged before the statements of g
After(entry, g) == Got(g.db, g.items, <<entry>> \o g.log, g.raised)

\* the walk over the rows the SELECT q left in the cursor, r being what executing q did
Walk(r, pol, T, q, factory, first) ==
    IF r.raised # NoError THEN Got(r.db, <<>>, <<LogEntry(q, r)>>, r.raised)
    ELSE After(LogEntry(q, r), HydrateRows(r.db, pol, T, r.rows, factory, first, 1))

\* a variant of select_and_walk that executes the statement without the contract check
select_and_walk_Unchecked(d, pol, T, q, factory, first) ==
    Walk(execute_and_commit(d, pol, q), pol, T, q, factory, first)

\* the contract check on the factory's query q, the SELECT, then the walk
select_and_walk(d, pol, T, q, factory, first) ==
    IF ContractBroken(q) THEN Got(d, <<>>, <<>>, PythonError("ValueError"))
    ELSE Walk(execute_and_commit(d, pol, q), pol, T, q, factory, first)

iter_models(d, pol, T, args, factory, first) ==
    select_and_walk(d, pol, T, CallSelectFactory(factory, get_sqldantic_schema(T), args),
                    factory, first)

\* list(iter_models(...))
get_models(d, pol, T, args, factory) == iter_models(d, pol, T, args, factory, FALSE)

\* next(iter_models(...)), None when the generator is empty
get_model(d, pol, T, args, factory) == iter_models(d, pol, T, args, factory, TRUE)

----------------------------------------------------------------------------
(* The model instances and arguments the calls are made with *)

Keys == {Str(<<"a">>), Str(<<"b">>)}
Names == {None, Str(<<"x">>)}
TagElems == {Str(<<>>), Str(<<"x">>), Str(<<",">>)}
SkillElems == {Str(<<"x">>)}
OwnerKeys == {Str(<<"k">>)}
OneKey == {Str(<<"a">>)}
OneName == {Str(<<"x">>)}

Customers == {Obj("Customer", <<k, n>>) : k \in Keys, n \in Names}
Orders == {Obj("Order", <<k, c>>) : k \in OneKey, c \in Customers \cup {None}}
LineItems == {Obj("LineItem", <<k, n>>) : k \in Keys, n \in OneName}
Carts == {Obj("Cart", <<k, List(l)>>) : k \in OneKey, l \in SeqsUpTo(LineItems, MaxSeq)}
Members == {Obj("Member", <<k>>) : k \in Keys}
Books == {Obj("Book", <<k, Dict(d)>>) :
            k \in OneKey, d \in {<<>>} \cup {<<<<o, c>>>> : o \in OwnerKeys, c \in Members}}
Shelves == {Obj("Shelf", <<k, b>>) : k \in OneKey, b \in {None} \cup Books}
Posts == {Obj("Post", <<k, t>>) :
            k \in OneKey, t \in {None} \cup {List(l) : l \in SeqsUpTo(TagElems, MaxSeq)}}
Tickets == {Obj("Ticket", <<k, o, n>>) : k \in OneKey, o \in {None} \cup Members, n \in Names}
Resumes == {Obj("Resume", <<List(l), n>>) : l \in SeqsUpTo(SkillElems, MaxSeq), n \in Names}
Profiles == {Obj("Profile", <<k, r>>) : k \in OneKey, r \in {None} \cup Resumes}
Invoices == {Obj("Invoice", <<k, c>>) : k \in OneKey, c \in Customers}
Entries == {Obj("Entry", <<k, n>>) : k \in OneKey, n \in Names}
Reviews == {Obj("Review", <<k, c, List(l)>>) :
                k \in Keys, c \in {None} \cup {Obj("Customer", <<j, n>>) : j \in OneKey, n \in OneName},
                l \in {<<>>} \cup {<<Obj("LineItem", <<j, n>>)>> : j \in Keys, n \in OneName}}

InstancesOf(T) ==
    CASE T = "Customer" -> Customers
      [] T = "Order" -> Orders
      [] T = "LineItem" -> LineItems
      [] T = "Cart" -> Carts
      [] T = "Member" -> Members
      [] T = "Book" -> Books
      [] T = "Shelf" -> Shelves
      [] T = "Post" -> Posts
      [] T = "Resume" -> Resumes
      [] T = "Ticket" -> Tickets
      [] T = "Profile" -> Profiles
      [] T = "Invoice" -> Invoices
      [] T = "Entry" -> Entries
      [] T = "Review" -> Reviews

\* the key lists a get call is made with
GetArgs(op) == SeqsUpTo(Keys, IF op = "get_models" THEN MaxSeq ELSE 1)

\* the classes an application defines together: a root class and the classes it nests
Applications ==
    {{"Customer", "Order"}, {"LineItem", "Cart"}, {"Member", "Book", "Shelf"}, {"Post"}, {"Resume"}}

----------------------------------------------------------------------------
(* The calls on a BaseDB *)

Call(op, model, T, args, factory, items, log, raised) ==
    [op |-> op, model |-> model, type |-> T, args |-> args, factory |-> factory,
     items |-> items, log |-> log, raised |-> raised]

Init ==
    /\ models \in Applications
    /\ policy = DefaultPolicy
    /\ db = [t \in AllTables |-> NoTable]
    /\ last = Call("init", None, "", <<>>, "", <<>>, <<>>, NoError)

\* the state after a call that ran r
Called(r, op, model, T, args, factory, items) ==
    /\ db' = r.db
    /\ last' = Call(op, model, T, args, factory, items, r.log, r.raised)
    /\ UNCHANGED <<models, policy>>

\* create_tables_from_model(model, if_not_exists)
create_tables_from_model(T, if_not_exists) ==
    Called(execute_queries(db, policy,
                           Gen(recusive_create_table_queries(T, if_not_exists), <<>>, NoError),
                           1),
           "create_tables", None, T, <<>>, IF if_not_exists THEN "IF NOT EXISTS" ELSE "", <<>>)

\* the bound on the rows of the tables without a key among the tables of creates
Room(d, creates) ==
    \A j \in 1..Len(creates) :
        creates[j].pk = "" => Len(d[creates[j].table].rows) < MaxRows

\* a variant of insert_model that creates the tables of the model's class first
CreateThen(creates, g) == Gen(creates \o g.queries, g.value, g.raised)

insert_model_Lazy(model) ==
    /\ Len(db[TableOf(TypeOf(model))].rows) < MaxRows
    /\ Room(db, recusive_create_table_queries(TypeOf(model), TRUE))
    /\ Called(execute_queries(db, policy,
                              CreateThen(recusive_create_table_queries(TypeOf(model), TRUE),
                                         recursive_modify_table_queries(model, "insert")),
                              1),
              "insert", model, TypeOf(model), <<>>, "insert", <<>>)

\* insert_model(model)
insert_model(model) ==
    /\ Len(db[TableOf(TypeOf(model))].rows) < MaxRows
    /\ Room(db, recusive_create_table_queries(TypeOf(model), TRUE))
    /\ Called(execute_queries(db, policy, recursive_modify_table_queries(model, "insert"), 1),
              "insert", model, TypeOf(model), <<>>, "insert", <<>>)

\* update_model(model)
update_model(model) ==
    Called(execute_queries(db, policy, recursive_modify_table_queries(model, "update"), 1),
           "update", model, TypeOf(model), <<>>, "update", <<>>)

\* the statement of delete_model
delete_model_query(schema, model) ==
    Query("DELETE", schema.table_name, <<>>, schema.primary_key, "pk = ?",
          <<GetAttr(model, schema.primary_key)>>, 1)

\* delete_model(model)
delete_model(model) ==
    Called(execute_queries(db, policy,
                           Gen(<<delete_model_query(get_sqldantic_schema(TypeOf(model)), model)>>,
                               <<>>, NoError),
                           1),
           "delete", model, TypeOf(model), <<>>, "", <<>>)

\* the state after a get call that did g
Returned(g, op, T, args, factory) ==
    /\ db' = g.db
    /\ last' = Call(op, None, T, args, factory, g.items, g.log, g.raised)
    /\ UNCHANGED <<models, policy>>

\* get_models(model, *args, select_query_factory=factory)
call_get_models(T, args, factory) ==
    Returned(get_models(db, policy, T, args, factory), "get_models", T, args, factory)

\* get_model(model, *args, select_query_factory=factory)
call_get_model(T, args, factory) ==
    Returned(get_model(db, policy, T, args, factory), "get_model", T, args, factory)

Next ==
    \/ \E T \in models, if_not_exists \in BOOLEAN : create_tables_from_model(T, if_not_exists)
    \/ \E T \in models : \E model \in InstancesOf(T) : insert_model(model)
    \/ \E T \in models : \E model \in InstancesOf(T) : update_model(model)
    \/ \E T \in models : \E model \in InstancesOf(T) : delete_model(model)
    \/ \E T \in models, args \in GetArgs("get_models"), factory \in SelectFactories :
            call_get_models(T, args, factory)
    \/ \E T \in models, args \in GetArgs("get_model"), factory \in SelectFactories :
            call_get_model(T, args, factory)

Spec == Init /\ [][Next]_vars

\* the values of ignore_sqlite_errors a BaseDB is constructed with: True, nothing, the
\* default, exception classes, and collections mixing classes and prefixes in either order
Policies ==
    {Policy(TRUE, <<>>),
     Policy(FALSE, <<>>),
     DefaultPolicy,
     Policy(FALSE, <<KindItem("IntegrityError")>>),
     Policy(FALSE, <<KindItem("IntegrityError"), PrefixItem(<<"no such table">>)>>),
     Policy(FALSE, <<PrefixItem(<<"no such table">>), KindItem("IntegrityError")>>)}

\* the application the policies are tried with
PolicyApplications == {{"Customer", "Order"}}

InitPolicy ==
    /\ models \in PolicyApplications
    /\ policy \in Policies
    /\ db = [t \in AllTables |-> NoTable]
    /\ last = Call("init", None, "", <<>>, "", <<>>, <<>>, NoError)

SpecPolicy == InitPolicy /\ [][Next]_vars

\* an application whose class declares unions that list None first
UnionApplications == {{"Member", "Ticket"}}

InitUnion ==
    /\ models \in UnionApplications
    /\ policy = DefaultPolicy
    /\ db = [t \in AllTables |-> NoTable]
    /\ last = Call("init", None, "", <<>>, "", <<>>, <<>>, NoError)

SpecUnion == InitUnion /\ [][Next]_vars

\* an application whose root class nests a class whose first field is a list
KeylessApplications == {{"Resume", "Profile"}}

InitKeyless ==
    /\ models \in KeylessApplications
    /\ policy = DefaultPolicy
    /\ db = [t \in AllTables |-> NoTable]
    /\ last = Call("init", None, "", <<>>, "", <<>>, <<>>, NoError)

SpecKeyless == InitKeyless /\ [][Next]_vars

\* applications whose root class holds a reference, declared Optional or required
ReferenceApplications == {{"Customer", "Order"}, {"Customer", "Invoice"}}

InitReference ==
    /\ models \in ReferenceApplications
    /\ policy = DefaultPolicy
    /\ db = [t \in AllTables |-> NoTable]
    /\ last = Call("init", None, "", <<>>, "", <<>>, <<>>, NoError)

SpecReference == InitReference /\ [][Next]_vars

\* the calls of an application that also selects with by_keys_select_query_factory
NextByKeys ==
    \/ Next
    \/ \E T \in models, factory \in ByKeysFactories : call_get_models(T, <<>>, factory)
    \/ \E T \in models, factory \in ByKeysFactories : call_get_model(T, <<>>, factory)

\* the application the by-keys selects are tried with
ByKeysApplications == {{"Customer", "Order"}}

InitByKeys ==
    /\ models \in ByKeysApplications
    /\ policy = DefaultPolicy
    /\ db = [t \in AllTables |-> NoTable]
    /\ last = Call("init", None, "", <<>>, "", <<>>, <<>>, NoError)

SpecByKeys == InitByKeys /\ [][NextByKeys]_vars

\* the database files a BaseDB is constructed on: one that opens, and a path in a
\* directory that does not exist
DbFiles == {"database", "unopenable"}

\* sqlite3.connect(db_file)
sqlite_connect(file) ==
    IF file = "unopenable"
    THEN SqliteError("OperationalError", <<"unable to open database file">>)
    ELSE NoError

\* create_connection under catch_sqlite_errors
create_connection(d, pol, file) ==
    Committed(d, pol, [db |-> d, error |-> sqlite_connect(file), rows |-> <<>>])

\* the log entry of the connection
Connect(file, c) == LogEntry(Query("CONNECT", "", <<>>, "", file, <<>>, 0), c)

RECURSIVE create_tables_from_models(_, _, _, _)
Prepend(log, rest) == [rest EXCEPT !.log = log \o @]

\* the loop over the models after the i-th, r being what the i-th did
TablesOfRest(r, pol, ms, i) ==
    IF r.raised # NoError THEN r
    ELSE Prepend(r.log, create_tables_from_models(r.db, pol, ms, i + 1))

\* create_tables_from_models(*models)
create_tables_from_models(d, pol, ms, i) ==
    IF i > Len(ms) THEN Ran(d, <<>>, NoError)
    ELSE TablesOfRest(execute_queries(d, pol,
                                      Gen(recusive_create_table_queries(ms[i], TRUE), <<>>,
                                          NoError),
                                      1),
                      pol, ms, i)

\* the state after the constructor ran r: the attribute is assigned on its last line, if
\* it gets there
Constructed(r, pol) ==
    /\ db' = r.db
    /\ policy' = IF r.raised = NoError THEN pol ELSE Unassigned
    /\ last' = Call("construct", None, "", <<>>, "", <<pol>>, r.log, r.raised)
    /\ UNCHANGED models

\* the constructor after create_connection did c
Connected(c, file, ms, pol) ==
    IF c.raised # NoError
    THEN Constructed(Ran(c.db, <<Connect(file, c)>>, c.raised), pol)
    ELSE Constructed(Prepend(<<Connect(file, c)>>,
                             create_tables_from_models(c.db, Unassigned, ms, 1)),
                     pol)

\* BaseDB(db_file, *models, ignore_sqlite_errors=pol): the wrapper of every call it makes
\* reads the attribute that only its last line assigns
BaseDB_init(file, ms, pol) == Connected(create_connection(db, Unassigned, file), file, ms, pol)

\* the values of ignore_sqlite_errors the constructor is called with: True, the default, none
InitPolicies == {Policy(TRUE, <<>>), DefaultPolicy, Policy(FALSE, <<>>)}

InitApplications == {{"Customer"}, {"Entry"}}

\* nothing constructed yet
InitNew ==
    /\ models \in InitApplications
    /\ policy = Unassigned
    /\ db = [t \in AllTables |-> NoTable]
    /\ last = Call("none", None, "", <<>>, "", <<>>, <<>>, NoError)

NextInit ==
    \/ \E file \in DbFiles, pol \in InitPolicies :
            \E ms \in {<<>>} \cup {<<T>> : T \in models} : BaseDB_init(file, ms, pol)
    \/ policy # Unassigned /\ Next

SpecInit == InitNew /\ [][NextInit]_vars

\* the declared types the classifier is called with: concrete types, and unions of two or
\* three of them in every order
AInt == <<"int", <<>>>>
ConcreteAnnotations == {AStr, AInt, ANoneType, AModel("Member"), AList(AStr)}
Annotations ==
    ConcreteAnnotations
    \cup {AList(AOptional(AStr)), ADict(AStr, AStr), ADict(AStr, AModel("Member"))}
    \cup {AUnion(p) : p \in {q \in ConcreteAnnotations \X ConcreteAnnotations : q[1] # q[2]}}
    \cup {AUnion(p) :
            p \in {q \in ConcreteAnnotations \X ConcreteAnnotations \X ConcreteAnnotations :
                        q[1] # q[2] /\ q[1] # q[3] /\ q[2] # q[3]}}

\* the type maps a BaseDB is configured with: the default, and one that maps str to VARCHAR
TypeMapNames == {"default", "custom"}
TypeMapOf(name) ==
    IF name = "custom" THEN [SQLDANTIC_TYPE_MAP EXCEPT !["str"] = "VARCHAR"]
    ELSE SQLDANTIC_TYPE_MAP

\* get_sqldantic_type(annotation, self.sqldantic_type_map), as get_model_sqldantic_fields
\* calls it for a field
classify(annotation, map) ==
    /\ last' = Call("classify", None, "", <<annotation>>, map,
                    <<get_sqldantic_type(annotation, TypeMapOf(map)).type,
                      get_sqldantic_type(annotation, TypeMapOf(map)).item>>,
                    <<>>, NoError)
    /\ UNCHANGED <<models, policy, db>>

NextClassify == \E annotation \in Annotations, map \in TypeMapNames : classify(annotation, map)

SpecClassify == InitUnion /\ [][NextClassify]_vars

----------------------------------------------------------------------------
(* The table-name configuration of a BaseDB *)

Getters == {"class_name", "class_attr", "bases"}
GetterLists ==
    {DefaultGetters, <<>>} \cup {<<g>> : g \in Getters}
    \cup {<<p[1], p[2]>> : p \in Getters \X Getters}
TransformerLists == {DefaultTransformers, <<"pluralize", "lower">>, <<"pluralize">>, <<>>}
NamedTypes == {"Pair", "Customer", "Member", "Tag", "TAG", "Boss", "Bosse"}

\* every table name a configuration can give a class
ConfiguredTables ==
    {transform_table_name(CallGetter(g, T).name, ts) :
        g \in Getters, T \in NamedTypes, ts \in TransformerLists}

\* get_sqldantic_schema(model) of an instance with the getters and transformers given:
\* get_table_name raises ValueError when no getter gives a name
ConfiguredSchema(T, getters, transformers) ==
    [raised |-> get_table_name(T, getters).raised,
     schema |-> [Schemas[T] EXCEPT
                    !.table_name = transform_table_name(get_table_name(T, getters).name,
                                                        transformers)]]

RECURSIVE ConfiguredCreate(_, _, _, _)
RECURSIVE ConfiguredNested(_, _, _, _, _)

\* the walk over the fields from the i-th on, ended by the first nested class that raises
ConfiguredNested(T, getters, transformers, if_not_exists, i) ==
    LET fs == Schemas[T].sqldantic_fields
        nested == NestedModels(fs[i])
    IN  IF i > Len(fs) THEN Gen(<<>>, <<>>, NoError)
        ELSE Then(IF Len(nested) >= 1
                  THEN ConfiguredCreate(nested[1], getters, transformers, if_not_exists)
                  ELSE Gen(<<>>, <<>>, NoError),
                  Then(IF Len(nested) >= 2
                       THEN ConfiguredCreate(nested[2], getters, transformers, if_not_exists)
                       ELSE Gen(<<>>, <<>>, NoError),
                       ConfiguredNested(T, getters, transformers, if_not_exists, i + 1)))

\* recusive_create_table_queries of an instance with the getters and transformers given:
\* the schema of the class is derived before anything is yielded
ConfiguredCreate(T, getters, transformers, if_not_exists) ==
    IF ConfiguredSchema(T, getters, transformers).raised
    THEN Gen(<<>>, <<>>, PythonError("ValueError"))
    ELSE Then(ConfiguredNested(T, getters, transformers, if_not_exists, 1),
              Gen(<<create_table_query(ConfiguredSchema(T, getters, transformers).schema,
                                       if_not_exists)>>, <<>>, NoError))

\* create_tables_from_model(model, if_not_exists) on the instance whose getters and
\* transformers the call records carry in args and items
configured_create_tables(T, if_not_exists) ==
    Called(execute_queries(db, policy,
                           ConfiguredCreate(T, last.args, last.items, if_not_exists), 1),
           "create_tables", None, T, last.args,
           IF if_not_exists THEN "IF NOT EXISTS" ELSE "", last.items)

InitNaming ==
    /\ models = NamedTypes
    /\ policy = DefaultPolicy
    /\ db = [t \in AllTables \cup ConfiguredTables |-> NoTable]
    /\ \E getters \in GetterLists, transformers \in TransformerLists :
            last = Call("init", None, "", getters, "", transformers, <<>>, NoError)

NextNaming ==
    \E T \in models, if_not_exists \in BOOLEAN : configured_create_tables(T, if_not_exists)

SpecNaming == InitNaming /\ [][NextNaming]_vars

----------------------------------------------------------------------------
(* Table creation on the interpreter's stack *)

\* the generators the interpreter lets recusive_create_table_queries nest before it raises
\* RecursionError: more than any class that nests no class twice needs
RecursionLimit == 4

RECURSIVE CreateAtDepth(_, _, _)
RECURSIVE NestedAtDepth(_, _, _, _)

\* the walk over the fields from the i-th on, in the generator nested depth deep
NestedAtDepth(T, if_not_exists, depth, i) ==
    LET fs == get_sqldantic_schema(T).sqldantic_fields
        nested == NestedModels(fs[i])
    IN  IF i > Len(fs) THEN Gen(<<>>, <<>>, NoError)
        ELSE Then(IF Len(nested) >= 1
                  THEN CreateAtDepth(nested[1], if_not_exists, depth + 1)
                  ELSE Gen(<<>>, <<>>, NoError),
                  Then(IF Len(nested) >= 2
                       THEN CreateAtDepth(nested[2], if_not_exists, depth + 1)
                       ELSE Gen(<<>>, <<>>, NoError),
                       NestedAtDepth(T, if_not_exists, depth, i + 1)))

\* recusive_create_table_queries(model, if_not_exists) in the generator nested depth deep:
\* the nested classes are walked, whatever was walked before, and the CREATE of the class
\* is yielded last
CreateAtDepth(T, if_not_exists, depth) ==
    IF depth > RecursionLimit THEN Gen(<<>>, <<>>, PythonError("RecursionError"))
    ELSE Then(NestedAtDepth(T, if_not_exists, depth, 1),
              Gen(<<create_table_query(get_sqldantic_schema(T), if_not_exists)>>, <<>>, NoError))

\* create_tables_from_model(model, if_not_exists)
create_tables_on_stack(T, if_not_exists) ==
    Called(execute_queries(db, policy, CreateAtDepth(T, if_not_exists, 1), 1),
           "create_tables", None, T, <<>>, IF if_not_exists THEN "IF NOT EXISTS" ELSE "", <<>>)

\* classes that reference their own class, directly or through another, and the
\* applications of Spec
CyclicApplications == {{"Node"}, {"Employee", "Team"}} \cup Applications

InitCyclic ==
    /\ models \in CyclicApplications
    /\ policy \in InitPolicies
    /\ db = [t \in AllTables |-> NoTable]
    /\ last = Call("init", None, "", <<>>, "", <<>>, <<>>, NoError)

NextCyclic == \E T \in models, if_not_exists \in BOOLEAN : create_tables_on_stack(T, if_not_exists)

SpecCyclic == InitCyclic /\ [][NextCyclic]_vars

----------------------------------------------------------------------------
(* The read walker on the cursor the calls of an instance share *)

\* what a call of the generator did, cursor being the rows the last SELECT left unfetched
\* in self.cursor and walked the rows the loop of the call took
OnCursor(d, cursor, items, walked, log, raised) ==
    [db |-> d, cursor |-> cursor, items |-> items, walked |-> walked, log |-> log,
     raised |-> raised]

\* a variant of fetchall that hands the loop the cursor itself: for row in self.cursor
fetchall_Iterate(cursor) == [rows |-> <<"cursor", <<>>>>, cursor |-> cursor]

\* self.cursor.fetchall(): the rows of the cursor as a list, the cursor left empty
fetchall(cursor) == [rows |-> <<"list", cursor>>, cursor |-> <<>>]

\* the for loop over rows, a list or the cursor: whether a row is left, the row, and the
\* list and the cursor once the row is taken
HasNext(rows, cursor) == IF rows[1] = "list" THEN Len(rows[2]) > 0 ELSE Len(cursor) > 0
NextRow(rows, cursor) == IF rows[1] = "list" THEN Head(rows[2]) ELSE Head(cursor)
RowsAfter(rows, cursor) == IF rows[1] = "list" THEN <<"list", Tail(rows[2])>> ELSE rows
CursorAfter(rows, cursor) == IF rows[1] = "list" THEN cursor ELSE Tail(cursor)

\* a column that executes no SELECT, g being its value: the cursor is left alone
Untouched(g, cursor) == OnCursor(g.db, cursor, g.items, <<>>, g.log, g.raised)

\* next(generator), None when it yields nothing
FirstOnCursor(g) ==
    [g EXCEPT !.items = IF Len(g.items) > 0 THEN g.items[1] ELSE None, !.walked = <<>>]

\* next(generator), StopIteration when it yields nothing
FirstOrStopOnCursor(g) ==
    IF g.raised = NoError /\ Len(g.items) = 0
    THEN [g EXCEPT !.items = None, !.walked = <<>>, !.raised = PythonError("StopIteration")]
    ELSE FirstOnCursor(g)

\* list(generator)
ListOnCursor(g) == [g EXCEPT !.items = List(g.items), !.walked = <<>>]

\* the value of one column, then the values of the columns after it
JoinColumns(g, rest) ==
    OnCursor(rest.db, rest.cursor, <<g.items>> \o rest.items, <<>>, g.log \o rest.log,
             rest.raised)

\* the model of one row, then the models of the rows after it
JoinRows(item, row, log, rest) ==
    OnCursor(rest.db, rest.cursor, <<item>> \o rest.items, <<row>> \o rest.walked,
             log \o rest.log, rest.raised)

RECURSIVE iter_models_on_cursor(_, _, _, _, _, _, _)
RECURSIVE CursorRows(_, _, _, _, _, _, _)
RECURSIVE CursorRow(_, _, _, _, _, _, _)
RECURSIVE CursorField(_, _, _, _, _, _, _)
RECURSIVE CursorRestOfRow(_, _, _, _, _, _)
RECURSIVE CursorRestOfRows(_, _, _, _, _, _, _)

\* one column of a row: the nested calls run their SELECT on the same cursor
CursorField(d, cursor, pol, T, row, factory, i) ==
    LET f == get_sqldantic_schema(T).sqldantic_fields[i]
        value == row[i]
    IN  IF ~IsNone(value) /\ is_base_model(f.type) THEN
            FirstOnCursor(iter_models_on_cursor(d, cursor, pol, f.type[2], <<value>>, factory, TRUE))
        ELSE IF ~IsNone(value) /\ f.type = Sql("SEQUENCE") /\ is_base_model(f.item) THEN
            ListOnCursor(iter_models_on_cursor(d, cursor, pol, f.item[2], SplitValues(value),
                                               factory, FALSE))
        ELSE IF ~IsNone(value) /\ f.type = Sql("UNKNOWN") /\ is_base_model(f.item) THEN
            FirstOrStopOnCursor(iter_models_on_cursor(d, cursor, pol, f.item[2], <<value>>,
                                                      factory, TRUE))
        ELSE Untouched(HydrateField(d, pol, T, row, factory, i), cursor)

\* the columns after the i-th, g being what the i-th did
CursorRestOfRow(g, pol, T, row, factory, i) ==
    IF g.raised # NoError THEN [g EXCEPT !.items = <<>>, !.walked = <<>>]
    ELSE JoinColumns(g, CursorRow(g.db, g.cursor, pol, T, row, factory, i + 1))

\* the columns of one row from the i-th on
CursorRow(d, cursor, pol, T, row, factory, i) ==
    IF i > Len(get_sqldantic_schema(T).sqldantic_fields)
    THEN OnCursor(d, cursor, <<>>, <<>>, <<>>, NoError)
    ELSE CursorRestOfRow(CursorField(d, cursor, pol, T, row, factory, i), pol, T, row, factory, i)

\* the model made of row, whose model_dict is in g, and the rows left in rows
CursorRestOfRows(g, rows, row, pol, T, factory, first) ==
    IF g.raised # NoError THEN OnCursor(g.db, g.cursor, <<>>, <<row>>, g.log, g.raised)
    ELSE IF ValidationFails(T, g.items)
    THEN OnCursor(g.db, g.cursor, <<>>, <<row>>, g.log, PythonError("ValidationError"))
    ELSE IF first THEN OnCursor(g.db, g.cursor, <<Obj(T, g.items)>>, <<row>>, g.log, NoError)
    ELSE JoinRows(Obj(T, g.items), row, g.log,
                  CursorRows(g.db, g.cursor, rows, pol, T, factory, first))

\* for row in rows: each row made a model
CursorRows(d, cursor, rows, pol, T, factory, first) ==
    IF ~HasNext(rows, cursor) THEN OnCursor(d, cursor, <<>>, <<>>, <<>>, NoError)
    ELSE CursorRestOfRows(CursorRow(d, CursorAfter(rows, cursor), pol, T, NextRow(rows, cursor),
                                    factory, 1),
                          RowsAfter(rows, cursor), NextRow(rows, cursor), pol, T, factory, first)

\* the walk after self.cursor.execute, r being what it did: its rows replace what the
\* cursor held
CursorWalk(r, rest) ==
    OnCursor(rest.db, rest.cursor, rest.items, rest.walked, <<r>> \o rest.log, rest.raised)

iter_models_on_cursor(d, cursor, pol, T, args, factory, first) ==
    LET q == CallSelectFactory(factory, get_sqldantic_schema(T), args)
        r == execute_and_commit(d, pol, q)
    IN  IF ContractBroken(q) THEN OnCursor(d, cursor, <<>>, <<>>, <<>>, PythonError("ValueError"))
        ELSE IF r.raised # NoError THEN OnCursor(r.db, <<>>, <<>>, <<>>, <<LogEntry(q, r)>>, r.raised)
        ELSE CursorWalk(LogEntry(q, r),
                        CursorRows(r.db, fetchall(r.rows).cursor, fetchall(r.rows).rows,
                                   pol, T, factory, first))

\* get_models(model, *args) and get_model(model, *args) on the cursor of the instance
get_models_on_cursor(T, args) ==
    Returned(iter_models_on_cursor(db, <<>>, policy, T, args, "primary_key", FALSE),
             "get_models", T, args, "primary_key")

get_model_on_cursor(T, args) ==
    Returned(iter_models_on_cursor(db, <<>>, policy, T, args, "primary_key", TRUE),
             "get_model", T, args, "primary_key")

CursorApplications == {{"Review"}, {"Customer", "Order"}, {"LineItem", "Cart"}}

InitCursor ==
    /\ models \in CursorApplications
    /\ policy = DefaultPolicy
    /\ db = [t \in AllTables |-> NoTable]
    /\ last = Call("init", None, "", <<>>, "", <<>>, <<>>, NoError)

NextCursor ==
    \/ \E T \in models : create_tables_from_model(T, TRUE)
    \/ \E T \in models : \E model \in InstancesOf(T) : insert_model(model)
    \/ \E T \in models : \E model \in InstancesOf(T) : delete_model(model)
    \/ \E T \in models, args \in GetArgs("get_models") : get_models_on_cursor(T, args)
    \/ \E T \in models, args \in GetArgs("get_model") : get_model_on_cursor(T, args)

SpecCursor == InitCursor /\ [][NextCursor]_vars

----------------------------------------------------------------------------
(* Properties *)

\* the model instances held directly by the fields of e, by value
Children(e) ==
    LET values == {FieldsOf(e)[i] : i \in 1..Len(FieldsOf(e))}
        held == values
                \cup UNION {{v[2][k] : k \in 1..Len(v[2])} : v \in {w \in values : w[1] = "list"}}
                \cup UNION {{v[2][k][2] : k \in 1..Len(v[2])} :
                                v \in {w \in values : w[1] = "dict"}}
    IN  {v \in held : IsObj(v)}

\* e and every model instance nested in it, at any depth
RECURSIVE Graph(_)
Graph(e) == {e} \cup UNION {Graph(c) : c \in Children(e)}

\* the primary key of e as its row holds it
FlatKey(e) == FlatRow(e)[FieldIndex(TypeOf(e), get_sqldantic_schema(TypeOf(e)).primary_key)]

\* the row numbers of the table of class T whose primary key column holds key
RowsWithKey(d, T, key) ==
    LET t == d[TableOf(T)]
    IN  {i \in 1..Len(t.rows) :
            t.rows[i][ColIndex(t.cols, get_sqldantic_schema(T).primary_key)] = key}

\* the tables of the classes of e's graph exist
TablesExist(d, e) == \A c \in Graph(e) : d[TableOf(TypeOf(c))].exists

\* q is the INSERT or UPDATE statement of the model instance e
IsStatementOf(q, e) ==
    /\ q.kind \in {"INSERT", "UPDATE"}
    /\ q.table = TableOf(TypeOf(e))
    /\ FlatKey(e) = IF q.kind = "INSERT"
                    THEN q.values[ColIndex(q.cols, get_sqldantic_schema(TypeOf(e)).primary_key)]
                    ELSE q.values[Len(q.values)]

\* C1. Round trip: whenever insert_model(E) has returned without an error, the first model
\* that get_model yields for E's primary key equals E, field by field.
C1_RoundTrip ==
    (last.op = "insert" /\ last.raised = NoError) =>
        get_model(db, policy, last.type, <<PkOf(last.model)>>, "primary_key").items
            = <<last.model>>

\* C2. Idempotent insert: inserting E again right after insert_model(E) has returned raises
\* no error, leaves the store as the first insert left it, and every table of E's graph
\* holds exactly one row with the key of each instance of the graph.
C2_IdempotentInsert ==
    [][(/\ last.op = "insert" /\ last.raised = NoError
        /\ last'.op = "insert" /\ last'.model = last.model)
       => (/\ last'.raised = NoError
           /\ db' = db
           /\ \A c \in Graph(last.model) :
                Cardinality(RowsWithKey(db', TypeOf(c), FlatKey(c))) = 1)]_vars

C4_UpdateSemantics ==
    [][last'.op = "update" =>
        LET e == last'.model
            before == db[TableOf(TypeOf(e))]
            after == db'[TableOf(TypeOf(e))]
            hit == RowsWithKey(db, TypeOf(e), FlatKey(e))
        IN  hit # {} =>
                /\ Len(after.rows) = Len(before.rows)
                /\ \A i \in 1..Len(before.rows) :
                        after.rows[i] = IF i \in hit THEN FlatRow(e) ELSE before.rows[i]]_vars

\* C5. Delete semantics: delete_model(E) on a store with E's table leaves in that table
\* exactly the rows that do not hold E's primary key, in their order, and leaves every
\* other table as it was.
C5_DeleteSemantics ==
    [][(last'.op = "delete" /\ db[TableOf(last'.type)].exists) =>
        LET e == last'.model
            before == db[TableOf(TypeOf(e))]
            keep == InRowidOrder((1..Len(before.rows)) \ RowsWithKey(db, TypeOf(e), FlatKey(e)))
        IN  /\ db'[TableOf(TypeOf(e))].rows = [i \in 1..Len(keep) |-> before.rows[keep[i]]]
            /\ \A t \in AllTables \ {TableOf(TypeOf(e))} : db'[t] = db[t]]_vars

\* C6. Contract enforcement: a get call whose select factory returns a statement that is
\* not a SELECT, or whose placeholder count differs from the number of its values, raises
\* ValueError and executes no statement.
C6_ContractEnforcement ==
    (/\ last.op \in {"get_models", "get_model"}
     /\ ContractBroken(CallSelectFactory(last.factory, get_sqldantic_schema(last.type),
                                         last.args)))
    => (last.raised = PythonError("ValueError") /\ last.log = <<>>)

\* a factory that returns a DELETE was used on a table that holds rows
C6_Witness ==
    /\ last.op = "get_models" /\ last.factory = "non_select"
    /\ Len(db[TableOf(last.type)].rows) > 0
    /\ last.raised = PythonError("ValueError")

\* the keys a stored items column of a Cart row lists
ListedKeys(row) == SplitValues(row[FieldIndex("Cart", "items")])

\* C7. Sequence-of-entity order: get_model of a stored Cart whose items column lists the
\* keys c1..cn of stored LineItems yields a Cart whose items are n LineItems, the i-th with
\* key ci.
C7_SequenceOrder ==
    (/\ last.op = "get_model" /\ last.type = "Cart" /\ last.factory = "primary_key"
     /\ Len(last.args) = 1
     /\ RowsWithKey(db, "Cart", last.args[1]) # {})
    => LET row == db[TableOf("Cart")].rows[CHOOSE i \in RowsWithKey(db, "Cart", last.args[1]) : TRUE]
           keys == ListedKeys(row)
       IN  (~IsNone(row[FieldIndex("Cart", "items")])
            /\ \A k \in 1..Len(keys) : RowsWithKey(db, "LineItem", keys[k]) # {})
           => /\ last.raised = NoError
              /\ Len(last.items) = 1
              /\ LET items == GetAttr(last.items[1], "items")[2]
                 IN  /\ Len(items) = Len(keys)
                     /\ \A k \in 1..Len(keys) : PkOf(items[k]) = keys[k]

\* C8. Sequence-of-scalar round trip: once insert_model has stored the row of a Post whose
\* tags are a list of texts, get_model by its key yields a Post with the same tags, in
\* number, elements and order.
C8_ScalarSequenceRoundTrip ==
    (/\ last.op = "insert" /\ last.type = "Post" /\ last.raised = NoError
     /\ last.log[Len(last.log)].outcome = "ok"
     /\ ~IsNone(GetAttr(last.model, "tags")))
    => LET got == get_model(db, policy, "Post", <<PkOf(last.model)>>, "primary_key")
       IN  /\ got.raised = NoError
           /\ Len(got.items) = 1
           /\ GetAttr(got.items[1], "tags") = GetAttr(last.model, "tags")

\* the policy names the error: everything, the class of the error, or a prefix of its message
Matches(pol, error) ==
    \/ pol.all
    \/ \E i \in 1..Len(pol.items) :
        \/ pol.items[i] = KindItem(error.kind)
        \/ pol.items[i][1] = "prefix" /\ IsPrefix(pol.items[i][2], error.msg)

\* C9. Error policy: whatever the policy, a statement whose sqlite error the policy names
\* is ignored and the call goes on, and a statement whose error it does not name ends the
\* call, which raises that very error.
C9_ErrorPolicy ==
    \A j \in 1..Len(last.log) :
        last.log[j].error # NoError =>
            IF Matches(policy, last.log[j].error)
            THEN last.log[j].outcome = "ignored"
            ELSE j = Len(last.log) /\ last.raised = last.log[j].error

\* C10 as stated. Lazy table creation: an insert_model(E) on a store that lacks a table of
\* E's graph creates the tables and returns without an error.
C10_LazyTableCreation ==
    [][(last'.op = "insert" /\ ~TablesExist(db, last'.model)) =>
        (TablesExist(db', last'.model) /\ last'.raised = NoError)]_vars

\* C10, amended. insert_model creates no table: the tables that exist are the same after the
\* call as before it, and on a store that lacks a table of E's graph the call raises
\* OperationalError "no such table" and adds no row to the table of E.
C10_InsertCreatesNoTable ==
    [][last'.op = "insert" =>
        /\ \A t \in AllTables : db'[t].exists = db[t].exists
        /\ ~TablesExist(db, last'.model) =>
            /\ last'.raised = SqliteError("OperationalError", <<"no such table">>)
            /\ db'[TableOf(last'.type)].rows = db[TableOf(last'.type)].rows]_vars

\* an insert on a store without the table of the model has raised "no such table"
C10_Witness ==
    /\ last.op = "insert"
    /\ ~db[TableOf(last.type)].exists
    /\ Len(last.log) > 0
    /\ last.raised = SqliteError("OperationalError", <<"no such table">>)

\* the model classes a declared type names, through unions, sequences and mappings
RECURSIVE DeclaredModels(_)
DeclaredModels(annotation) ==
    IF annotation[1] = "model" THEN {annotation[2][1]}
    ELSE UNION {DeclaredModels(annotation[2][i]) : i \in 1..Len(annotation[2])}

\* the classes the fields of T are declared with
Referenced(T) ==
    UNION {DeclaredModels(model_fields(T)[i].annotation) : i \in 1..Len(model_fields(T))}

\* the classes of S and every class reachable from them through declared field types
RECURSIVE Closure(_)
Closure(S) ==
    LET more == S \cup UNION {Referenced(T) : T \in S}
    IN  IF more = S THEN S ELSE Closure(more)

\* C11. create_tables_from_model(T) with the default if_not_exists executes, without an
\* error, CREATE TABLE IF NOT EXISTS statements only, one for every class reachable from T
\* through declared field types, each after the statements of the classes its fields are
\* declared with.
C11_CreateReachable ==
    (last.op = "create_tables" /\ last.factory = "IF NOT EXISTS") =>
        /\ last.raised = NoError
        /\ \A j \in 1..Len(last.log) :
                /\ last.log[j].query.kind = "CREATE"
                /\ last.log[j].query.where = "IF NOT EXISTS"
        /\ \A U \in Closure({last.type}) :
                /\ \E j \in 1..Len(last.log) : last.log[j].query.table = TableOf(U)
                /\ \A j \in 1..Len(last.log) :
                        last.log[j].query.table = TableOf(U) =>
                            \A V \in Referenced(U) : \E i \in 1..(j - 1) :
                                last.log[i].query.table = TableOf(V)

\* C12. Idempotent schema creation: create_tables_from_model with the default
\* if_not_exists, called in any state the inserts, updates and deletes lead to, raises no
\* error, leaves every existing table with its columns and rows, and leaves the tables
\* of its statements existing.
C12_IdempotentCreate ==
    [][(last'.op = "create_tables" /\ last'.factory = "IF NOT EXISTS") =>
        /\ last'.raised = NoError
        /\ \A j \in 1..Len(last'.log) :
                /\ last'.log[j].outcome = "ok"
                /\ db'[last'.log[j].query.table].exists
        /\ \A t \in AllTables : db[t].exists => db'[t] = db[t]]_vars

\* the tables were created again while the table of the class held rows
C12_Witness ==
    /\ last.op = "create_tables" /\ last.factory = "IF NOT EXISTS"
    /\ Len(db[TableOf(last.type)].rows) > 0
    /\ last.raised = NoError

\* the database after the statements of log[1..n] that were committed, executed on d in turn
RECURSIVE Replay(_, _, _)
Replay(d, log, n) ==
    IF n = 0 THEN d
    ELSE LET before == Replay(d, log, n - 1)
         IN  IF log[n].outcome = "ok" THEN sqlite_execute(before, log[n].query).db ELSE before

\* insert_model(e) on the database d once the tables of e's class are created
PersistWithTables(d, pol, e) ==
    execute_queries(
        execute_queries(d, pol, Gen(recusive_create_table_queries(TypeOf(e), TRUE), <<>>, NoError),
                        1).db,
        pol, recursive_modify_table_queries(e, "insert"), 1)

\* the retry and the uninterrupted insert end in the same database when both succeed
SameEnd(retry, single) ==
    (retry.raised = NoError /\ single.raised = NoError) => retry.db = single.db

\* C13. Partial failure: when a statement of insert_model(E) raises, the statements before
\* it stay committed, no statement after it is executed (the root's included), and a later
\* insert_model(E) that succeeds, the missing tables being created in between, ends in the
\* same database as one uninterrupted insert_model(E) would have.
C13_PartialFailure ==
    [][(last'.op = "insert" /\ last'.raised # NoError /\ Len(last'.log) > 0
            /\ last'.log[Len(last'.log)].outcome = "raised") =>
        /\ \A j \in 1..(Len(last'.log) - 1) : last'.log[j].outcome \in {"ok", "ignored"}
        /\ db' = Replay(db, last'.log, Len(last'.log) - 1)
        /\ ~\E j \in 1..(Len(last'.log) - 1) :
                /\ IsStatementOf(last'.log[j].query, last'.model)
                /\ last'.log[j].query.values = FlatRow(last'.model)
        /\ IsPrefix([j \in 1..Len(last'.log) |-> last'.log[j].query],
                    recursive_modify_table_queries(last'.model, "insert").queries)
        /\ SameEnd(PersistWithTables(db', policy, last'.model),
                   PersistWithTables(db, policy, last'.model))]_vars

\* the i-th column of the row of class T is a reference no row of the referenced class has
Dangling(d, T, row, i) ==
    /\ is_base_model(get_sqldantic_schema(T).sqldantic_fields[i].type)
    /\ ~IsNone(row[i])
    /\ RowsWithKey(d, get_sqldantic_schema(T).sqldantic_fields[i].type[2], row[i]) = {}

\* the rows of the table of class T and their columns that dangle
DanglingColumns(d, T) ==
    {<<r, i>> \in (1..Len(d[TableOf(T)].rows)) \X (1..Len(model_fields(T))) :
        Dangling(d, T, d[TableOf(T)].rows[r], i)}

\* g returned one model without an error, its i-th field being None
HydratedEmpty(g, i) ==
    /\ g.raised = NoError
    /\ Len(g.items) = 1
    /\ IsNone(FieldsOf(g.items[1])[i])

\* C14 as stated. Dangling reference: get_model of a row whose reference column holds a key
\* that no row of the referenced class has returns the model with that field None and
\* raises no error.
C14_DanglingReference ==
    \A T \in models : \A c \in DanglingColumns(db, T) :
        HydratedEmpty(get_model(db, policy, T, <<db[TableOf(T)].rows[c[1]][1]>>, "primary_key"),
                      c[2])

\* C14 amended. Dangling reference: get_model of a row whose reference column holds a key
\* that no row of the referenced class has returns the model with that field None and
\* raises no error when the field is declared Optional; when the field is required, the
\* construction of the model raises a validation error.
C14_DanglingOptional ==
    \A T \in models : \A c \in DanglingColumns(db, T) :
        IF IsOptional(model_fields(T)[c[2]].annotation)
        THEN HydratedEmpty(get_model(db, policy, T, <<db[TableOf(T)].rows[c[1]][1]>>,
                                     "primary_key"),
                           c[2])
        ELSE get_model(db, policy, T, <<db[TableOf(T)].rows[c[1]][1]>>, "primary_key").raised
                = PythonError("ValidationError")

C14_Witness ==
    /\ last.op = "get_model" /\ last.type = "Order" /\ last.factory = "primary_key"
    /\ Len(last.args) = 1
    /\ \E c \in DanglingColumns(db, "Order") : db[TableOf("Order")].rows[c[1]][1] = last.args[1]
    /\ HydratedEmpty(last, 2)

\* the row numbers of the table of class T that the default select with the keys args is
\* to return: every row without keys, the rows whose primary key is one of the keys with
SelectedRows(d, T, args) ==
    IF Len(args) = 0 THEN 1..Len(d[TableOf(T)].rows)
    ELSE UNION {RowsWithKey(d, T, args[k]) : k \in 1..Len(args)}

\* the models in items are the models of the rows in sel, one for one by primary key
OneForOne(d, T, items, sel) ==
    /\ Len(items) = Cardinality(sel)
    /\ \A key \in {d[TableOf(T)].rows[r][1] : r \in sel} :
            Cardinality({i \in 1..Len(items) : FlatKey(items[i]) = key})
                = Cardinality({r \in sel : d[TableOf(T)].rows[r][1] = key})

FieldNames(schema) == [i \in 1..Len(schema.sqldantic_fields) |-> schema.sqldantic_fields[i].name]

\* the statement q addresses the table, primary key and columns that a derivation of the
\* schema of class U gives
Addresses(q, U) ==
    /\ q.table = SQLDanticSchema(U).table_name
    /\ q.kind \in {"UPDATE", "DELETE", "SELECT"} => q.pk = SQLDanticSchema(U).primary_key
    /\ q.kind \in {"INSERT", "CREATE"} => q.cols = FieldNames(SQLDanticSchema(U))

\* the statement of the call's own class among the statements logged, if it was reached
RootStatements(call) ==
    IF Len(call.log) = 0 THEN {}
    ELSE IF call.op \in {"get_models", "get_model"} THEN {call.log[1].query}
    ELSE IF call.raised = NoError THEN {call.log[Len(call.log)].query}
    ELSE {}

ModelMappingColumns(T) ==
    {i \in 1..Len(model_fields(T)) :
        /\ get_sqldantic_schema(T).sqldantic_fields[i].type = Sql("MAPPING")
        /\ get_sqldantic_schema(T).sqldantic_fields[i].item[1] = "pair"
        /\ is_base_model(get_sqldantic_schema(T).sqldantic_fields[i].item[2][2])}

\* g returned one model without an error, its i-th field being the mapping of the keys
\* stored in cell to the models of class V with the primary keys stored for them
MappingHydrated(g, d, pol, cell, i, V) ==
    /\ g.raised = NoError
    /\ Len(g.items) = 1
    /\ FieldsOf(g.items[1])[i][1] = "dict"
    /\ Len(FieldsOf(g.items[1])[i][2]) = Len(json_loads(cell)[2])
    /\ \A k \in 1..Len(json_loads(cell)[2]) :
            /\ FieldsOf(g.items[1])[i][2][k][1] = json_loads(cell)[2][k][1]
            /\ <<FieldsOf(g.items[1])[i][2][k][2]>>
                    = get_model(d, pol, V, <<json_loads(cell)[2][k][2]>>, "primary_key").items

\* C17. Mapping hydration: get_model of a row whose mapping column was written for a
\* mapping with model values returns, without raising, the model whose field maps each
\* stored key to the hydrated model of the primary key stored for it.
C17_MappingHydration ==
    \A T \in models : \A r \in 1..Len(db[TableOf(T)].rows) : \A i \in ModelMappingColumns(T) :
        IsJson(db[TableOf(T)].rows[r][i]) =>
            MappingHydrated(get_model(db, policy, T, <<db[TableOf(T)].rows[r][1]>>, "primary_key"),
                            db, policy, db[TableOf(T)].rows[r][i], i,
                            get_sqldantic_schema(T).sqldantic_fields[i].item[2][2][2])

\* the fields of the model e that are classified UNKNOWN and hold a value
UnknownFields(e) ==
    {i \in 1..Len(FieldsOf(e)) :
        /\ get_sqldantic_schema(TypeOf(e)).sqldantic_fields[i].type = Sql("UNKNOWN")
        /\ ~IsNone(FieldsOf(e)[i])}

\* C18. Unknown fields on insert: when the tables exist, a field classified UNKNOWN whose
\* value is a model instance has that instance's statement executed before the parent's
\* and the parent's column holds the instance's primary key; any other value of such a
\* field is stored JSON-encoded.
C18_UnknownPersist ==
    (last.op = "insert" /\ TablesExist(db, last.model)) =>
        \A i \in UnknownFields(last.model) :
            IF IsObj(FieldsOf(last.model)[i])
            THEN /\ last.raised = NoError
                 /\ \E j \in 1..(Len(last.log) - 1) :
                        IsStatementOf(last.log[j].query, FieldsOf(last.model)[i])
                 /\ last.log[Len(last.log)].query.values[i] = PkOf(FieldsOf(last.model)[i])
            ELSE last.raised = NoError =>
                    last.log[Len(last.log)].query.values[i] = json_dumps(FieldsOf(last.model)[i])

\* the rows the first statement of a get call fetched
FetchedRows(d, call) == sqlite_execute(d, call.log[1].query).rows

\* the call returned what hydrating rows gives when every nested model is selected by the
\* key stored for it
KeyedByReference(call, ref) == call.raised = ref.raised /\ call.items = ref.items

\* C19. Nested hydration is keyed by the stored reference: whatever select factory and
\* arguments a get call is made with, once its own SELECT has run, the models it returns
\* are the fetched rows with every reference and sequence-of-models column filled with the
\* rows of the nested class whose primary key is the stored key.
C19_NestedByReference ==
    (last.op \in {"get_models", "get_model"} /\ Len(last.log) > 0
            /\ last.log[1].outcome = "ok") =>
        KeyedByReference(last,
                         HydrateRows(db, policy, last.type, FetchedRows(db, last),
                                     "primary_key", last.op = "get_model", 1))

\* the policy the caller configured for the last call: the argument of the constructor, or
\* the attribute of the instance
Configured(call, pol) == IF call.op = "construct" THEN call.items[1] ELSE pol

\* C20. The error policy covers every statement, the constructor's included: an error of
\* the connection, of a CREATE TABLE statement run by the constructor or of any later
\* statement is ignored when the configured policy names it, and otherwise ends the call,
\* which raises that very error.
C20_PolicyEverywhere ==
    \A j \in 1..Len(last.log) :
        last.log[j].error # NoError =>
            IF Matches(Configured(last, policy), last.log[j].error)
            THEN last.log[j].outcome = "ignored"
            ELSE j = Len(last.log) /\ last.raised = last.log[j].error

\* C21. Primary-key uniqueness: every table that exists was created with its primary-key
\* column constrained PRIMARY KEY, whatever the category of the primary-key field, and
\* holds no two rows with the same primary-key value.
C21_PrimaryKeyUnique ==
    \A T \in models :
        db[TableOf(T)].exists =>
            /\ db[TableOf(T)].pk = get_sqldantic_schema(T).primary_key
            /\ \A r1, r2 \in 1..Len(db[TableOf(T)].rows) :
                    db[TableOf(T)].rows[r1][1] = db[TableOf(T)].rows[r2][1] => r1 = r2

\* the union with the same variants, NoneType listed last
NotNoneType(annotation) == annotation # ANoneType
IsNoneType(annotation) == annotation = ANoneType
NoneLast(annotation) ==
    AUnion(SelectSeq(annotation[2], NotNoneType) \o SelectSeq(annotation[2], IsNoneType))

\* the category and item category the classifier gives
Category(r) == <<r.type, r.item>>

\* C22. Null variants are skipped wherever they occur: a union classifies by its first
\* variant other than None that resolves to a concrete category, so a union classifies
\* the same wherever it lists None, first or last.
C22_NullVariantsSkipped ==
    (last.op = "classify" /\ last.args[1][1] = "Union") =>
        last.items = Category(get_sqldantic_type(NoneLast(last.args[1]),
                                                 TypeMapOf(last.factory)))

\* the category the configured map gives the concrete type that the default map gives c
Reconfigured(c, map) ==
    IF c[1] = "sql" /\ \E k \in DOMAIN map : SQLDANTIC_TYPE_MAP[k] = c[2] /\ map[k] # c[2]
    THEN Sql(map[CHOOSE k \in DOMAIN map : SQLDANTIC_TYPE_MAP[k] = c[2] /\ map[k] # c[2]])
    ELSE c

\* a classification under the default map with every category looked up in map instead
ConsultedEverywhere(r, map) ==
    <<Reconfigured(r.type, map),
      IF r.item[1] = "pair"
      THEN PairItem(Reconfigured(r.item[2][1], map), Reconfigured(r.item[2][2], map))
      ELSE Reconfigured(r.item, map)>>

\* C23. The configured type map is consulted for every concrete type of a declared type:
\* the top-level type, the variants of a union, the items of a sequence and the keys and
\* values of a mapping.
C23_ConfiguredMapEverywhere ==
    last.op = "classify" =>
        last.items = ConsultedEverywhere(get_sqldantic_type(last.args[1], SQLDANTIC_TYPE_MAP),
                                         TypeMapOf(last.factory))

\* TRUE when the getter g gives the class T a name: it neither raises nor returns an empty one
Succeeds(g, T) == ~CallGetter(g, T).raised /\ Len(CallGetter(g, T).name) > 0
Derivable(T, getters) == \E i \in 1..Len(getters) : Succeeds(getters[i], T)

\* the name of the first getter in list order that succeeds
FirstName(T, getters) ==
    CallGetter(getters[CHOOSE i \in 1..Len(getters) :
                            /\ Succeeds(getters[i], T)
                            /\ \A j \in 1..(i - 1) : ~Succeeds(getters[j], T)], T).name

\* the transformers applied in list order
Chain(name, ts) ==
    CASE Len(ts) = 0 -> name
      [] Len(ts) = 1 -> CallTransformer(ts[1], name)
      [] Len(ts) = 2 -> CallTransformer(ts[2], CallTransformer(ts[1], name))

\* the classes nested in the fields of T from the i-th on, in field order
RECURSIVE NestedFrom(_, _)
NestedFrom(T, i) ==
    IF i > Len(Schemas[T].sqldantic_fields) THEN <<>>
    ELSE NestedModels(Schemas[T].sqldantic_fields[i]) \o NestedFrom(T, i + 1)

\* the classes whose walk is complete when create_tables_from_model(T) ends, in order:
\* none when T has no name, the nested classes before the first without a name, T last
\* when they all have one (for a T whose nested classes nest nothing)
Walked(T, getters) ==
    LET nested == NestedFrom(T, 1)
        failing == {j \in 1..Len(nested) : ~Derivable(nested[j], getters)}
    IN  IF ~Derivable(T, getters) THEN <<>>
        ELSE IF failing = {} THEN nested \o <<T>>
        ELSE SubSeq(nested, 1, (CHOOSE j \in failing : \A k \in failing : j <= k) - 1)

Unnamed(T, getters) ==
    \/ ~Derivable(T, getters)
    \/ \E j \in 1..Len(NestedFrom(T, 1)) : ~Derivable(NestedFrom(T, 1)[j], getters)

\* C24 as written: when the getters give some class no name, a configuration error is
\* raised and no statement is executed.
C24_NoStatementOnFailure ==
    (last.op = "create_tables" /\ Unnamed(last.type, last.args)) =>
        /\ last.raised = PythonError("ValueError")
        /\ last.log = <<>>

\* C24, amended: every statement executed names the table the transformer chain, applied
\* in list order, makes of the name of the first getter in list order that succeeds;
\* when the getters give a class no name the call raises a configuration error unless a
\* statement raised first, and the statements executed are those of the nested classes
\* walked before that class.
C24_TableNameDerivation ==
    last.op = "create_tables" =>
        LET walked == Walked(last.type, last.args)
        IN  /\ Len(last.log) <= Len(walked)
            /\ \A i \in 1..Len(last.log) :
                    last.log[i].query.table = Chain(FirstName(walked[i], last.args), last.items)
            /\ Unnamed(last.type, last.args) =>
                    \/ /\ last.raised = PythonError("ValueError")
                       /\ Len(last.log) = Len(walked)
                       /\ \A i \in 1..Len(last.log) : last.log[i].outcome # "raised"
                    \/ /\ Len(last.log) > 0
                       /\ last.log[Len(last.log)].outcome = "raised"
                       /\ last.raised = last.log[Len(last.log)].error
            /\ last.raised = PythonError("ValueError") => Unnamed(last.type, last.args)

\* a call that fell back from a getter that raised, and raised the configuration error
\* after the table of an earlier nested class was created
C24_Witness ==
    /\ last.op = "create_tables"
    /\ last.type = "Pair"
    /\ Len(last.args) = 2
    /\ ~Succeeds(last.args[1], "Pair")
    /\ last.raised = PythonError("ValueError")
    /\ Len(last.log) = 1
    /\ last.log[1].outcome = "ok"

\* the statements the generator of the write call recorded in c yields
Emitted(c) ==
    CASE c.op = "create_tables" -> recusive_create_table_queries(c.type, c.factory = "IF NOT EXISTS")
      [] c.op = "insert" -> recursive_modify_table_queries(c.model, "insert").queries
      [] c.op = "update" -> recursive_modify_table_queries(c.model, "update").queries
      [] c.op = "delete" -> <<delete_model_query(get_sqldantic_schema(c.type), c.model)>>

\* C25. One commit per statement: the statements of a write call are executed in the order
\* the generator yields them, each on the database the commits of those before it left;
\* statement k+1 is executed only when statement k was committed or its error swallowed,
\* and a statement whose execution raised an error, swallowed or not, leaves nothing
\* committed.
C25_OneCommitPerStatement ==
    [][last'.op \in {"create_tables", "insert", "update", "delete"} =>
        /\ IsPrefix([k \in 1..Len(last'.log) |-> last'.log[k].query], Emitted(last'))
        /\ \A k \in 1..(Len(last'.log) - 1) : last'.log[k].outcome \in {"ok", "ignored"}
        /\ \A k \in 1..Len(last'.log) :
                /\ last'.log[k].error = sqlite_execute(Replay(db, last'.log, k - 1),
                                                       last'.log[k].query).error
                /\ last'.log[k].outcome = "ok" <=> last'.log[k].error = NoError
        /\ db' = Replay(db, last'.log, Len(last'.log))
        /\ last'.raised = NoError => Len(last'.log) = Len(Emitted(last'))]_vars

\* a write call with a statement that failed and was swallowed, followed by a statement
\* that was committed
C25_Witness ==
    /\ last.op \in {"insert", "update"}
    /\ Len(last.log) >= 2
    /\ \E k \in 1..(Len(last.log) - 1) :
            /\ last.log[k].outcome = "ignored"
            /\ last.log[k + 1].outcome = "ok"

\* the primary keys the rows of the table of class T hold, row by row
StoredKeys(d, T) ==
    [r \in 1..Len(d[TableOf(T)].rows) |->
        d[TableOf(T)].rows[r][ColIndex(d[TableOf(T)].cols, get_sqldantic_schema(T).primary_key)]]

\* the fields of e that are references to a model instance no row of d stores
Unstored(d, e) ==
    {i \in 1..Len(FieldsOf(e)) :
        /\ is_base_model(get_sqldantic_schema(TypeOf(e)).sqldantic_fields[i].type)
        /\ IsObj(FieldsOf(e)[i])
        /\ d[TableOf(TypeOf(FieldsOf(e)[i]))].exists
        /\ RowsWithKey(d, TypeOf(FieldsOf(e)[i]), FlatKey(FieldsOf(e)[i])) = {}}

\* C26. update_model(E) never inserts or removes a row: every table exists after the call
\* iff it did before and holds the same primary keys, row by row; when E references a
\* nested model that has no stored row and the call raises nothing, the row of E holds the
\* key of that nested model, which still has no row.
C26_UpdateKeepsRows ==
    [][last'.op = "update" =>
        /\ \A T \in ModelTypes :
                /\ db'[TableOf(T)].exists = db[TableOf(T)].exists
                /\ db'[TableOf(T)].exists => StoredKeys(db', T) = StoredKeys(db, T)
        /\ last'.raised = NoError =>
                \A i \in Unstored(db, last'.model) :
                    \A r \in RowsWithKey(db', last'.type, FlatKey(last'.model)) :
                        /\ db'[TableOf(last'.type)].rows[r][i] = PyStr(FlatKey(FieldsOf(last'.model)[i]))
                        /\ Dangling(db', last'.type, db'[TableOf(last'.type)].rows[r], i)]_vars

\* an update_model of a stored Order whose Customer has no row has returned: the row of the
\* Order holds the key of that Customer
C26_Witness ==
    /\ last.op = "update" /\ last.type = "Order" /\ last.raised = NoError
    /\ 2 \in Unstored(db, last.model)
    /\ \E r \in RowsWithKey(db, "Order", FlatKey(last.model)) :
            /\ db[TableOf("Order")].rows[r][2] = PyStr(FlatKey(FieldsOf(last.model)[2]))
            /\ Dangling(db, "Order", db[TableOf("Order")].rows[r], 2)

\* C27. insert_model(E) under the default policy, the tables of E's graph existing, never
\* modifies a stored row: every table keeps the rows it had, in place; no error is raised;
\* and every model of E's graph whose key no row had has a row with that key afterwards,
\* holding the values of a model of the graph with that key.
C27_InsertKeepsStoredRows ==
    [][(last'.op = "insert" /\ policy = DefaultPolicy /\ TablesExist(db, last'.model)) =>
        /\ last'.raised = NoError
        /\ \A T \in ModelTypes : IsPrefix(db[TableOf(T)].rows, db'[TableOf(T)].rows)
        /\ \A c \in Graph(last'.model) :
                RowsWithKey(db, TypeOf(c), FlatKey(c)) = {} =>
                    \E r \in RowsWithKey(db', TypeOf(c), FlatKey(c)) :
                        \E e \in Graph(last'.model) :
                            /\ TypeOf(e) = TypeOf(c)
                            /\ db'[TableOf(TypeOf(c))].rows[r] = FlatRow(e)]_vars

\* an insert_model whose first statement hit the key of a stored row with other values and
\* was ignored, and whose next statement inserted a row: the stored row has its old values
C27_Witness ==
    /\ last.op = "insert" /\ last.raised = NoError
    /\ Len(last.log) >= 2
    /\ last.log[1].outcome = "ignored"
    /\ last.log[2].outcome = "ok"
    /\ \E r \in 1..Len(db[last.log[1].query.table].rows) :
            /\ db[last.log[1].query.table].rows[r][1] = last.log[1].query.values[1]
            /\ db[last.log[1].query.table].rows[r] # last.log[1].query.values

\* T is among the classes the fields of the classes in seen reference, at any depth
RECURSIVE ReachableFrom(_)
ReachableFrom(seen) ==
    LET next == seen \cup {U \in ModelTypes :
                    \E T \in seen : \E i \in 1..Len(get_sqldantic_schema(T).sqldantic_fields) :
                        \E j \in 1..Len(NestedModels(get_sqldantic_schema(T).sqldantic_fields[i])) :
                            NestedModels(get_sqldantic_schema(T).sqldantic_fields[i])[j] = U}
    IN  IF next = seen THEN seen ELSE ReachableFrom(next)

\* the class T references its own class, directly or through other classes
SelfReferencing(T) ==
    \E i \in 1..Len(get_sqldantic_schema(T).sqldantic_fields) :
        \E j \in 1..Len(NestedModels(get_sqldantic_schema(T).sqldantic_fields[i])) :
            T \in ReachableFrom({NestedModels(get_sqldantic_schema(T).sqldantic_fields[i])[j]})

\* C28. create_tables_from_model terminates with a finite statement sequence for every
\* class, the classes that reference their own class included: the call does not end in
\* the interpreter's recursion error, and with IF NOT EXISTS the table of the class exists
\* afterwards.
C28_CreateTerminates ==
    last.op = "create_tables" =>
        /\ last.raised # PythonError("RecursionError")
        /\ last.factory = "IF NOT EXISTS" => db[TableOf(last.type)].exists

\* the recursion error is raised for the classes that reference their own class, and for
\* no other
RecursionWhenSelfReferencing ==
    last.op = "create_tables" =>
        (last.raised = PythonError("RecursionError") <=> SelfReferencing(last.type))

\* C29. Under the default naming configuration two classes with different names never have
\* the same table name: the table a create_tables_from_model call creates for its class is
\* the table of no other class of the application.
C29_OwnTable ==
    (/\ last.op = "create_tables" /\ last.raised = NoError
     /\ last.args = DefaultGetters /\ last.items = DefaultTransformers) =>
        \A U \in models :
            ClassName(U) # ClassName(last.type) =>
                ConfiguredSchema(U, last.args, last.items).schema.table_name
                    # last.log[Len(last.log)].query.table

\* what the get call recorded in c does on the cursor, from the database d
OnSharedCursor(d, pol, c) ==
    iter_models_on_cursor(d, <<>>, pol, c.type, c.args, c.factory, c.op = "get_model")

\* the rows the SELECT of the call g itself returned
OwnRows(d, g) == IF Len(g.log) = 0 THEN <<>> ELSE sqlite_execute(d, g.log[1].query).rows

\* the rows the loop of g walked are the rows own of its own SELECT, in order: all of them
\* when list() drains the generator, the first when next() takes one model, and those up
\* to the row that raised otherwise
WalkedOwnRows(g, own, first) ==
    /\ IsPrefix(g.walked, own)
    /\ (g.raised = NoError /\ ~first) => g.walked = own
    /\ (g.raised = NoError /\ first /\ Len(own) > 0) => g.walked = <<own[1]>>

\* the call recorded in c returned what g, the call on the shared cursor, did, and what
\* ref, the call that shares no cursor, did
Isolated(c, g, ref, d) ==
    /\ WalkedOwnRows(g, OwnRows(d, g), c.op = "get_model")
    /\ c.items = g.items /\ c.raised = g.raised
    /\ c.items = ref.items /\ c.log = ref.log /\ c.raised = ref.raised

\* C30. Shared-cursor isolation: the rows a get call walks for its class are the rows of
\* the SELECT the call itself executed, in order; the SELECTs the nested calls execute on
\* the same cursor for references and sequences drop, replace or reorder none of them, and
\* the call returns what it returns when no cursor is shared.
C30_CursorIsolation ==
    [][last'.op \in {"get_models", "get_model"} =>
        \A g \in {OnSharedCursor(db, policy, last')} :
            \A ref \in {iter_models(db, policy, last'.type, last'.args, last'.factory,
                                    last'.op = "get_model")} :
                Isolated(last', g, ref, db)]_vars

\* get_models has returned two Reviews, the first with its Customer and a LineItem: the
\* nested SELECTs ran on the cursor between the two rows of the outer SELECT
C30_Witness ==
    /\ last.op = "get_models" /\ last.type = "Review" /\ last.raised = NoError
    /\ Len(last.items) = 2
    /\ IsObj(FieldsOf(last.items[1])[2])
    /\ Len(FieldsOf(last.items[1])[3][2]) = 1
    /\ Len(OwnRows(db, last)) = 2

====
